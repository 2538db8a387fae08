----------------------- MODULE SchedulerPlacementProofs ------------------------
(***************************************************************************)
(* Further theorems about the fiber scheduler, on top of the delivery      *)
(* invariant: no fiber is ever lost from its queue or queued twice, the    *)
(* I/O counter that Run trusts is exact, a sender that goes on has room,   *)
(* the two ways Run ends mean what they say, and the scheduler implements  *)
(* the abstract channels of ChannelSpec.                                   *)
(***************************************************************************)
EXTENDS SchedulerProofs

\* The two halves of NoneLost.
ReadyQueued ==
    \A f \in Fiber : state[f] = "Ready" => \E i \in DOMAIN runQueue : runQueue[i] = f
BlockedParked == \A f \in Fiber : state[f] = "Blocked" => Parked(f)

\* NoneLost is about ready fibers and about blocked ones.
LEMMA NoneLostParts == NoneLost <=> ReadyQueued /\ BlockedParked
BY DEF NoneLost, ReadyQueued, BlockedParked

--------------------------------------------------------------------------------
(* What every step does to the I/O bookkeeping, and to pc.                 *)

\* Only an asynchronous call, a delivered wakeup and a wakeup taken change
\* the I/O bookkeeping.
LEMMA IoStep ==
    ASSUME [Next]_vars
    PROVE  \/ UNCHANGED ioVars
           \/ TakeWakeup
           \/ OpCallAsync
           \/ \E f \in Fiber : IoDone(f)
<1>1. CASE UNCHANGED vars
    BY <1>1 DEF vars
<1>2. CASE RunStep
    BY <1>2 DEF RunStep, DrainWakeups, DrainDone, Dispatch, Idle, WaitWakeup, Exit, Requeue
<1>3. CASE FiberStep
    <2>1. CASE Preempt \/ LoopExit \/ OpOther \/ RuntimeError \/ StartBuiltin \/ OpSpawn \/ OpReturn
               \/ OpMakeChannel
        BY <2>1 DEF Preempt, LoopExit, OpOther, RuntimeError, StartBuiltin, OpSpawn, OpReturn,
           OpMakeChannel
    <2>2. ASSUME NEW c \in Chan, OpSend(c) \/ OpReceive(c) PROVE UNCHANGED ioVars
        BY <2>2 DEF OpSend, OpReceive, SendHandoff, SendBuffer, SendBlock, ReceiveBuffer,
           ReceiveUnblock, ReceiveRendezvous, ReceiveBlock, TakeOldest, StartSend, StartReceive
    <2> QED BY <1>3, <2>1, <2>2 DEF FiberStep
<1>4. CASE BuiltinReturns
    BY <1>4 DEF BuiltinReturns
<1> QED
    BY <1>1, <1>2, <1>3, <1>4 DEF Next, VMStep, Finished

\* ioBlockedCount goes up and down with the goroutines and the wakeups.
LEMMA NextIoAccounted ==
    ASSUME DeliveryInv, IoAccounted, [Next]_vars
    PROVE  IoAccounted'
<1>0. /\ inflight \subseteq Fiber /\ pendingWakeups \in Seq(Fiber)
      /\ Len(pendingWakeups) \in Nat
    BY DEF DeliveryInv, TypeOK, IoTypeOK
<1>1. IsFiniteSet(inflight) /\ Cardinality(inflight) \in Nat
    <2>1. IsFiniteSet(Fiber)
        BY BoundsAssumption, FS_Interval DEF Fiber, Main
    <2>2. IsFiniteSet(inflight)
        BY <1>0, <2>1, FS_Subset
    <2> QED BY <2>2, FS_CardinalityType
<1>2. CASE UNCHANGED ioVars
    BY <1>2 DEF IoAccounted, ioVars
<1>3. CASE TakeWakeup
    <2>1. Len(Tail(pendingWakeups)) = Len(pendingWakeups) - 1
        BY <1>0, <1>3 DEF TakeWakeup
    <2>2. /\ pendingWakeups' = Tail(pendingWakeups) /\ inflight' = inflight
          /\ ioBlockedCount' = ioBlockedCount - 1
        BY <1>3 DEF TakeWakeup
    <2> QED BY <1>0, <1>1, <2>1, <2>2 DEF IoAccounted
<1>4. CASE OpCallAsync
    <2>1. state[current] = "Running"
        BY <1>4, RunningFacts DEF OpCallAsync, Instruction
    <2>2. current \notin inflight
        BY <2>1 DEF DeliveryInv, WaitersAreBlocked, BlockedOnIo
    <2>3. Cardinality(inflight \cup {current}) = Cardinality(inflight) + 1
        BY <1>1, <2>2, FS_AddElement
    <2>4. /\ inflight' = inflight \cup {current} /\ pendingWakeups' = pendingWakeups
          /\ ioBlockedCount' = ioBlockedCount + 1
        BY <1>4 DEF OpCallAsync
    <2> QED BY <1>0, <1>1, <2>3, <2>4 DEF IoAccounted
<1>5. ASSUME NEW f \in Fiber, IoDone(f) PROVE IoAccounted'
    <2>1. Cardinality(inflight \ {f}) = Cardinality(inflight) - 1
        BY <1>1, <1>5, FS_RemoveElement DEF IoDone
    <2>2. Len(Append(pendingWakeups, f)) = Len(pendingWakeups) + 1
        BY <1>0, AppendFacts
    <2>3. /\ inflight' = inflight \ {f} /\ pendingWakeups' = Append(pendingWakeups, f)
          /\ ioBlockedCount' = ioBlockedCount
        BY <1>5 DEF IoDone
    <2> QED BY <1>0, <1>1, <2>1, <2>2, <2>3 DEF IoAccounted
<1> QED BY <1>2, <1>3, <1>4, <1>5, IoStep

\* Run ends only in Exit, and after that nothing moves.
LEMMA NextStopped ==
    ASSUME TypeOK, Stopped, [Next]_vars
    PROVE  Stopped'
<1>1. CASE UNCHANGED vars
    BY <1>1 DEF Stopped, HasBlockedFibers, vars, fiberVars, ioVars
<1>2. CASE Exit
    BY <1>2 DEF Exit, Stopped, HasBlockedFibers, fiberVars, ioVars
<1>3. CASE RunStep /\ ~Exit
    <2>1. pc' \notin {"ok", "deadlock"}
        BY <1>3 DEF RunStep, DrainWakeups, DrainDone, Dispatch, Idle, WaitWakeup, Requeue
    <2> QED BY <2>1 DEF Stopped
<1>4. CASE FiberStep
    <2>1. CASE Preempt \/ LoopExit \/ OpOther \/ RuntimeError \/ StartBuiltin \/ OpSpawn \/ OpReturn
               \/ OpCallAsync \/ OpMakeChannel
        BY <2>1 DEF Preempt, LoopExit, OpOther, RuntimeError, StartBuiltin, OpSpawn, OpReturn,
           OpCallAsync, OpMakeChannel, Instruction, InFiber, Continues, Yields, Stopped
    <2>2. ASSUME NEW c \in Chan, OpSend(c) \/ OpReceive(c) PROVE pc' = "yielded"
        BY <2>2 DEF OpSend, OpReceive, SendHandoff, SendBuffer, SendBlock, ReceiveBuffer,
           ReceiveUnblock, ReceiveRendezvous, ReceiveBlock, TakeOldest, StartSend, StartReceive,
           Yields
    <2> QED BY <1>4, <2>1, <2>2 DEF FiberStep, Stopped
<1>5. CASE ~Halted /\ \E f \in Fiber : IoDone(f)
    BY <1>5 DEF Halted, IoDone, Stopped
<1>6. CASE BuiltinReturns
    BY <1>6 DEF BuiltinReturns, Stopped
<1> QED
    BY <1>1, <1>2, <1>3, <1>4, <1>5, <1>6 DEF Next, VMStep, Finished

--------------------------------------------------------------------------------
(* Fibers and channels that are referred to exist.                         *)

\* Only these steps give a fiber a new ticket.
LEMMA TicketStep ==
    ASSUME [Next]_vars
    PROVE  \/ UNCHANGED waits
           \/ Dispatch \/ OpCallAsync
           \/ \E c \in Chan : StartSend(c) \/ StartReceive(c)
<1>1. CASE UNCHANGED vars
    BY <1>1 DEF vars, stackVars
<1>2. CASE RunStep
    BY <1>2 DEF RunStep, DrainWakeups, DrainDone, Idle, WaitWakeup, TakeWakeup, Exit, Requeue,
       stackVars
<1>3. CASE FiberStep
    <2>1. CASE Preempt \/ LoopExit \/ OpOther \/ RuntimeError \/ StartBuiltin \/ OpSpawn \/ OpReturn
               \/ OpCallAsync \/ OpMakeChannel
        BY <2>1 DEF Preempt, LoopExit, OpOther, RuntimeError, StartBuiltin, OpSpawn, OpReturn,
           OpMakeChannel, stackVars
    <2>2. ASSUME NEW c \in Chan, OpSend(c) \/ OpReceive(c)
          PROVE  StartSend(c) \/ StartReceive(c)
        BY <2>2 DEF OpSend, OpReceive, SendHandoff, SendBuffer, SendBlock, ReceiveBuffer,
           ReceiveUnblock, ReceiveRendezvous, ReceiveBlock, TakeOldest
    <2> QED BY <1>3, <2>1, <2>2 DEF FiberStep
<1>4. CASE \E f \in Fiber : IoDone(f)
    BY <1>4 DEF IoDone, stackVars
<1>5. CASE BuiltinReturns
    BY <1>5 DEF BuiltinReturns, stackVars
<1> QED
    BY <1>1, <1>2, <1>3, <1>4, <1>5 DEF Next, VMStep, Finished

\* Only these steps touch a channel.
LEMMA ChannelStep ==
    ASSUME [Next]_vars
    PROVE  \/ UNCHANGED chanVars
           \/ OpMakeChannel
           \/ \E c \in Chan : OpSend(c) \/ OpReceive(c)
<1>1. CASE UNCHANGED vars
    BY <1>1 DEF vars
<1>2. CASE RunStep
    BY <1>2 DEF RunStep, DrainWakeups, DrainDone, Dispatch, Idle, WaitWakeup, TakeWakeup, Exit,
       Requeue
<1>3. CASE FiberStep
    <2>1. CASE Preempt \/ LoopExit \/ OpOther \/ RuntimeError \/ StartBuiltin \/ OpSpawn \/ OpReturn
               \/ OpCallAsync
        BY <2>1 DEF Preempt, LoopExit, OpOther, RuntimeError, StartBuiltin, OpSpawn, OpReturn,
           OpCallAsync
    <2> QED BY <1>3, <2>1 DEF FiberStep
<1>4. CASE \E f \in Fiber : IoDone(f)
    BY <1>4 DEF IoDone
<1>5. CASE BuiltinReturns
    BY <1>5 DEF BuiltinReturns
<1> QED
    BY <1>1, <1>2, <1>3, <1>4, <1>5 DEF Next, VMStep, Finished

\* The channels that exist are channels.
LEMMA MadeInChan == TypeOK => Made \subseteq Chan
BY BoundsAssumption DEF TypeOK, ChanTypeOK, Made, Chan

\* A channel, once made, stays.
LEMMA MadeGrows ==
    ASSUME TypeOK, [Next]_vars
    PROVE  Made \subseteq Made'
<1>1. nextChanId \in Nat
    BY DEF TypeOK, ChanTypeOK
<1>2. CASE UNCHANGED chanVars
    BY <1>2 DEF chanVars, Made
<1>3. CASE OpMakeChannel
    BY <1>1, <1>3 DEF OpMakeChannel, Made
<1>4. ASSUME NEW c \in Chan, OpSend(c) \/ OpReceive(c) PROVE nextChanId' = nextChanId
    BY <1>4 DEF OpSend, OpReceive, SendHandoff, SendBuffer, SendBlock, ReceiveBuffer,
       ReceiveUnblock, ReceiveRendezvous, ReceiveBlock, TakeOldest, StartSend, StartReceive
<1> QED BY <1>2, <1>3, <1>4, ChannelStep DEF Made

\* A send or a receive only moves existing fibers between ready and blocked.
LEMMA ChannelOpStates ==
    ASSUME DeliveryInv, NEW c \in Chan, OpSend(c) \/ OpReceive(c)
    PROVE  /\ nfibers' = nfibers
           /\ \A f \in Fiber : state'[f] = state[f] \/ state'[f] \in {"Ready", "Blocked"}
<1>1. /\ nfibers' = nfibers
      /\ \/ \E f : Enqueue(f)
         \/ \E f, g : EnqueueBoth(f, g)
         \/ state' = [state EXCEPT ![current] = "Blocked"]
    BY DEF OpSend, OpReceive, SendHandoff, SendBuffer, SendBlock, ReceiveBuffer, ReceiveUnblock,
       ReceiveRendezvous, ReceiveBlock, TakeOldest, StartSend, StartReceive
<1>2. state \in [Fiber -> FiberState]
    BY DEF DeliveryInv, TypeOK, FiberTypeOK
<1> QED BY <1>1, <1>2 DEF Enqueue, EnqueueBoth

\* No step makes a fiber vanish, and a new fiber is made before it counts.
LEMMA NextExisting ==
    ASSUME DeliveryInv, Existing, [Next]_vars
    PROVE  Existing'
<1>0. TypeOK /\ state \in [Fiber -> FiberState] /\ waits \in [Fiber -> Ticket]
      /\ current \in Fiber /\ nfibers \in 0 .. MaxFibers /\ nfibers \in Nat
      /\ runQueue \in Seq(Fiber) /\ pendingWakeups \in Seq(Fiber)
    BY DEF DeliveryInv, TypeOK, FiberTypeOK, IoTypeOK, StackTypeOK
<1>1. \A f \in Fiber : f <= nfibers' => state'[f] # "Unborn"
    <2>a. ASSUME nfibers' = nfibers,
                 \A f \in Fiber : state'[f] = state[f] \/ state'[f] # "Unborn"
          PROVE  \A f \in Fiber : f <= nfibers' => state'[f] # "Unborn"
        BY <2>a DEF Existing
    <2>1. CASE UNCHANGED vars
        BY <2>1, <2>a DEF vars, fiberVars
    <2>2. CASE TakeWakeup
        BY <1>0, <2>2, <2>a DEF TakeWakeup, Enqueue
    <2>3. CASE DrainDone \/ Idle \/ Exit
        BY <2>3, <2>a DEF DrainDone, Idle, Exit, fiberVars
    <2>4. CASE Dispatch
        BY <1>0, <2>4, <2>a DEF Dispatch
    <2>5. CASE Requeue
        BY <1>0, <2>5, <2>a DEF Requeue, Enqueue
    <2>6. CASE Preempt \/ OpOther \/ RuntimeError \/ OpReturn \/ OpMakeChannel \/ StartBuiltin
               \/ BuiltinReturns
        BY <2>6, <2>a DEF Preempt, OpOther, RuntimeError, OpReturn, OpMakeChannel, StartBuiltin,
           BuiltinReturns, fiberVars
    <2>7. CASE LoopExit \/ OpCallAsync
        BY <1>0, <2>7, <2>a DEF LoopExit, OpCallAsync
    <2>8. CASE OpSpawn
        <3>1. nfibers' = nfibers + 1 /\ state' = [state EXCEPT ![nfibers + 1] = "Ready"]
            BY <2>8 DEF OpSpawn, Enqueue
        <3>2. \A f \in Fiber : f \in Nat
            BY FiberFacts
        <3> QED BY <1>0, <3>1, <3>2 DEF Existing
    <2>9. ASSUME NEW c \in Chan, OpSend(c) \/ OpReceive(c)
          PROVE  \A f \in Fiber : f <= nfibers' => state'[f] # "Unborn"
        BY <2>9, <2>a, ChannelOpStates
    <2>10. CASE \E f \in Fiber : IoDone(f)
        BY <2>10, <2>a DEF IoDone, fiberVars
    <2> QED
        BY <2>1, <2>2, <2>3, <2>4, <2>5, <2>6, <2>7, <2>8, <2>9, <2>10
        DEF Next, VMStep, RunStep, FiberStep, DrainWakeups, WaitWakeup, Finished
<1>2. \A f \in Fiber : waits'[f].kind \in {"send", "recv"} => waits'[f].chan \in Made'
    <2>0. Made \subseteq Made'
        BY <1>0, MadeGrows
    <2>1. CASE UNCHANGED waits
        BY <2>0, <2>1 DEF Existing
    <2>2. CASE Dispatch
        BY <1>0, <2>0, <2>2 DEF Dispatch, NoTicket, Existing
    <2>3. CASE OpCallAsync
        BY <1>0, <2>0, <2>3 DEF OpCallAsync, IoTicket, Existing
    <2>4. ASSUME NEW c \in Chan, StartSend(c) \/ StartReceive(c)
          PROVE  \A f \in Fiber : waits'[f].kind \in {"send", "recv"} => waits'[f].chan \in Made'
        <3>1. c \in Made /\ waits'[current].chan = c
              /\ \A f \in Fiber : f # current => waits'[f] = waits[f]
            BY <2>4, StartSendFacts, StartReceiveFacts, TicketFacts
        <3> QED BY <2>0, <3>1 DEF Existing
    <2> QED BY <2>1, <2>2, <2>3, <2>4, TicketStep
<1> QED BY <1>1, <1>2 DEF Existing

--------------------------------------------------------------------------------
(* No fiber is lost.  First what the helpers do to the run queue.          *)

\* A fiber that is made ready is put in the run queue.
LEMMA QueuedEnqueue ==
    ASSUME TypeOK, ReadyQueued, NEW f \in Fiber, Enqueue(f)
    PROVE  ReadyQueued'
<1>1. runQueue \in Seq(Fiber) /\ runQueue' = Append(runQueue, f)
    BY DEF TypeOK, FiberTypeOK, Enqueue
<1>2. /\ DOMAIN runQueue = 1 .. Len(runQueue) /\ Len(runQueue) \in Nat
      /\ DOMAIN runQueue' = 1 .. (Len(runQueue) + 1)
      /\ \A i \in 1 .. Len(runQueue) : runQueue'[i] = runQueue[i]
      /\ runQueue'[Len(runQueue) + 1] = f
    BY <1>1, AppendFacts
<1>3. \A g \in Fiber : g # f => state'[g] = state[g]
    BY DEF TypeOK, FiberTypeOK, Enqueue
<1> QED BY <1>2, <1>3 DEF ReadyQueued

\* So are two fibers.
LEMMA QueuedEnqueueBoth ==
    ASSUME TypeOK, ReadyQueued, NEW f \in Fiber, NEW g \in Fiber, EnqueueBoth(f, g)
    PROVE  ReadyQueued'
<1>1. runQueue \in Seq(Fiber) /\ runQueue' = Append(Append(runQueue, f), g)
    BY DEF TypeOK, FiberTypeOK, EnqueueBoth
<1>2. /\ DOMAIN runQueue = 1 .. Len(runQueue) /\ Len(runQueue) \in Nat
      /\ DOMAIN runQueue' = 1 .. (Len(runQueue) + 2)
      /\ \A i \in 1 .. Len(runQueue) : runQueue'[i] = runQueue[i]
      /\ runQueue'[Len(runQueue) + 1] = f /\ runQueue'[Len(runQueue) + 2] = g
    BY <1>1
<1>3. \A h \in Fiber : h # f /\ h # g => state'[h] = state[h]
    BY DEF TypeOK, FiberTypeOK, EnqueueBoth
<1> QED BY <1>2, <1>3 DEF ReadyQueued

\* No fiber becomes ready while the run queue stays as it is.
LEMMA QueuedKeep ==
    ASSUME ReadyQueued, UNCHANGED runQueue,
           \A f \in Fiber : state'[f] = "Ready" => state[f] = "Ready"
    PROVE  ReadyQueued'
BY DEF ReadyQueued

\* A suspended fiber stays where it is found when its place is as before.
LEMMA KeepParked ==
    ASSUME NEW f \in Fiber, Parked(f), waits'[f] = waits[f],
           waits[f].kind = "send" => sendQueue'[waits[f].chan] = sendQueue[waits[f].chan],
           waits[f].kind = "recv" => recvQueue'[waits[f].chan] = recvQueue[waits[f].chan],
           waits[f].kind = "io" => UNCHANGED <<inflight, pendingWakeups>>
    PROVE  Parked(f)'
BY DEF Parked

\* A step that leaves the wait queues alone and suspends nobody.
LEMMA KeepAllParked ==
    ASSUME BlockedParked, UNCHANGED <<sendQueue, recvQueue, inflight, pendingWakeups>>,
           \A f \in Fiber : state'[f] = "Blocked" => state[f] = "Blocked" /\ waits'[f] = waits[f]
    PROVE  BlockedParked'
<1> SUFFICES ASSUME NEW f \in Fiber, state'[f] = "Blocked" PROVE Parked(f)'
    BY DEF BlockedParked
<1>1. Parked(f) /\ waits'[f] = waits[f]
    BY DEF BlockedParked
<1> QED BY <1>1, KeepParked

\* A send or receive on c keeps the fibers that wait elsewhere.
LEMMA KeepParkedElsewhere ==
    ASSUME PlacementInv, NEW c \in Chan, NEW f \in Fiber,
           state[f] = "Blocked", waits'[f] = waits[f], UNCHANGED ioVars,
           \A d \in Chan : d # c => sendQueue'[d] = sendQueue[d] /\ recvQueue'[d] = recvQueue[d],
           waits[f].kind = "send" /\ waits[f].chan = c => sendQueue'[c] = sendQueue[c],
           waits[f].kind = "recv" /\ waits[f].chan = c => recvQueue'[c] = recvQueue[c]
    PROVE  Parked(f)'
<1>1. Parked(f)
    BY DEF PlacementInv, NoneLost
<1>2. waits[f].kind \in {"send", "recv"} => waits[f].chan \in Chan
    BY MadeInChan DEF PlacementInv, DeliveryInv, Existing
<1> QED BY <1>1, <1>2, KeepParked DEF ioVars

--------------------------------------------------------------------------------
(* No fiber is lost, and a sender that goes on has room: the steps of Run  *)
(* and the instructions that use no channel.                               *)

\* The senders that may go on are as before.
LEMMA KeepInTime ==
    ASSUME PlacementInv, UNCHANGED <<asked, capacity>>,
           \A f \in Fiber : state'[f] = "Ready" /\ waits'[f].kind = "send" =>
                state[f] = "Ready" /\ waits'[f] = waits[f]
    PROVE  SendCompletesInTime'
BY DEF PlacementInv, SendCompletesInTime

\* A step that moves no fiber.
LEMMA QuietPlacement ==
    ASSUME PlacementInv, UNCHANGED <<state, runQueue, chanVars, ioVars, waits>>
    PROVE  NoneLost' /\ SendCompletesInTime'
<1>1. NoneLost'
    BY QueuedKeep, KeepAllParked, NoneLostParts DEF PlacementInv, chanVars, ioVars,
       NoneLost, ReadyQueued, BlockedParked, Parked
<1>2. SendCompletesInTime'
    BY KeepInTime DEF chanVars
<1> QED BY <1>1, <1>2

\* Run takes a wakeup: the fiber leaves pendingWakeups for the run queue.
LEMMA WakeupPlacement ==
    ASSUME PlacementInv, TakeWakeup
    PROVE  NoneLost' /\ SendCompletesInTime'
<1> DEFINE w == Head(pendingWakeups)
           q == pendingWakeups
<1>0. /\ DeliveryInv /\ TypeOK /\ ReadyQueued /\ BlockedParked
      /\ state \in [Fiber -> FiberState]
    BY NoneLostParts DEF PlacementInv, DeliveryInv, TypeOK, FiberTypeOK
<1>1. /\ q \in Seq(Fiber) /\ q # << >> /\ q' = Tail(q)
      /\ UNCHANGED <<inflight, waits, sendQueue, recvQueue, asked, capacity>> /\ Enqueue(w)
    BY <1>0 DEF TypeOK, IoTypeOK, TakeWakeup, chanVars
<1>2. /\ 1 \in DOMAIN q /\ q[1] \in Fiber /\ w = q[1] /\ Len(q) \in Nat
      /\ \A i \in DOMAIN Tail(q) :
           i \in Nat /\ i >= 1 /\ i + 1 \in DOMAIN q /\ Tail(q)[i] = q[i + 1]
    BY <1>1, QueueFacts
<1>3. waits[w] = IoTicket
    BY <1>0, <1>2 DEF DeliveryInv, WaitersAreBlocked, BlockedOnIo
<1>4. state'[w] = "Ready" /\ \A f \in Fiber : f # w => state'[f] = state[f]
    BY <1>0, <1>1, <1>2 DEF Enqueue
<1>5. ReadyQueued'
    BY <1>0, <1>1, <1>2, QueuedEnqueue
<1>6. BlockedParked'
    <2> SUFFICES ASSUME NEW f \in Fiber, state'[f] = "Blocked" PROVE Parked(f)'
        BY DEF BlockedParked
    <2>1. f # w /\ state[f] = "Blocked" /\ Parked(f) /\ waits'[f] = waits[f]
        BY <1>0, <1>1, <1>4 DEF BlockedParked
    <2>2. (\E i \in DOMAIN q : q[i] = f) <=> (\E i \in DOMAIN q' : q'[i] = f)
        <3>1. ASSUME NEW i \in DOMAIN q, q[i] = f PROVE \E j \in DOMAIN q' : q'[j] = f
            <4>1. i # 1 /\ i \in 1 .. Len(q)
                BY <1>1, <1>2, <2>1, <3>1
            <4>2. i - 1 \in DOMAIN Tail(q) /\ Tail(q)[i - 1] = q[i]
                BY <1>1, <4>1
            <4> QED BY <1>1, <3>1, <4>2
        <3>2. ASSUME NEW i \in DOMAIN q', q'[i] = f PROVE \E j \in DOMAIN q : q[j] = f
            BY <1>1, <1>2, <3>2
        <3> QED BY <3>1, <3>2
    <2> QED BY <1>1, <2>1, <2>2 DEF Parked
<1>7. SendCompletesInTime'
    <2>1. IoTicket.kind = "io"
        BY DEF IoTicket
    <2> QED BY <1>1, <1>3, <1>4, <2>1, KeepInTime
<1> QED BY <1>5, <1>6, <1>7, NoneLostParts DEF NoneLost, ReadyQueued, BlockedParked

\* Run dispatches the head of the run queue.
LEMMA DispatchPlacement ==
    ASSUME PlacementInv, Dispatch
    PROVE  NoneLost' /\ SendCompletesInTime'
<1> DEFINE w == Head(runQueue)
<1>0. /\ ReadyQueued /\ BlockedParked
      /\ state \in [Fiber -> FiberState] /\ runQueue \in Seq(Fiber) /\ waits \in [Fiber -> Ticket]
    BY NoneLostParts DEF PlacementInv, DeliveryInv, TypeOK, FiberTypeOK, StackTypeOK
<1>1. /\ runQueue # << >> /\ runQueue' = Tail(runQueue)
      /\ state' = [state EXCEPT ![w] = "Running"] /\ waits' = [waits EXCEPT ![w] = NoTicket]
      /\ UNCHANGED <<chanVars, ioVars>>
    BY DEF Dispatch
<1>2. w \in Fiber /\ w = runQueue[1]
    BY <1>0, <1>1, QueueFacts
<1>3. ReadyQueued'
    <2> SUFFICES ASSUME NEW f \in Fiber, state'[f] = "Ready"
                 PROVE  \E j \in DOMAIN runQueue' : runQueue'[j] = f
        BY DEF ReadyQueued
    <2>1. f # w /\ state[f] = "Ready"
        BY <1>0, <1>1, <1>2
    <2>2. PICK i \in DOMAIN runQueue : runQueue[i] = f
        BY <1>0, <2>1 DEF ReadyQueued
    <2>3. i # 1 /\ i \in 1 .. Len(runQueue)
        BY <1>0, <1>2, <2>1, <2>2
    <2>4. i - 1 \in DOMAIN Tail(runQueue) /\ Tail(runQueue)[i - 1] = runQueue[i]
        BY <1>0, <1>1, <2>3
    <2> QED BY <1>1, <2>2, <2>4
<1>4. BlockedParked'
    BY <1>0, <1>1, KeepAllParked DEF chanVars, ioVars
<1>5. SendCompletesInTime'
    BY <1>0, <1>1, KeepInTime DEF chanVars
<1> QED BY <1>3, <1>4, <1>5 DEF NoneLost, ReadyQueued, BlockedParked

\* A fiber that is still running goes to the end of the run queue.
LEMMA RequeuePlacement ==
    ASSUME PlacementInv, Requeue
    PROVE  NoneLost' /\ SendCompletesInTime'
<1>0. /\ TypeOK /\ ReadyQueued /\ BlockedParked /\ current \in Fiber
      /\ state \in [Fiber -> FiberState]
    BY NoneLostParts DEF PlacementInv, DeliveryInv, TypeOK, FiberTypeOK
<1>1. UNCHANGED <<chanVars, ioVars, stackVars>>
    BY DEF Requeue
<1>2. CASE state[current] = "Running"
    <2>1. Enqueue(current) /\ waits[current] = NoTicket
        BY <1>0, <1>2 DEF Requeue, PlacementInv, DeliveryInv, OneRunning
    <2>2. state'[current] = "Ready" /\ \A f \in Fiber : f # current => state'[f] = state[f]
        BY <1>0, <2>1 DEF Enqueue
    <2>3. ReadyQueued'
        BY <1>0, <2>1, QueuedEnqueue
    <2>4. BlockedParked'
        BY <1>0, <1>1, <2>2, KeepAllParked DEF chanVars, ioVars, stackVars
    <2>5. SendCompletesInTime'
        <3>1. NoTicket.kind = "none"
            BY DEF NoTicket
        <3> QED BY <1>0, <1>1, <2>1, <2>2, <3>1, KeepInTime DEF chanVars, stackVars
    <2> QED BY <2>3, <2>4, <2>5 DEF NoneLost, ReadyQueued, BlockedParked
<1>3. CASE state[current] # "Running"
    BY <1>1, <1>3, QuietPlacement DEF Requeue, stackVars
<1> QED BY <1>2, <1>3

\* The loop of the fiber ends: it is done.
LEMMA LoopExitPlacement ==
    ASSUME PlacementInv, LoopExit
    PROVE  NoneLost' /\ SendCompletesInTime'
<1>0. /\ ReadyQueued /\ BlockedParked /\ state \in [Fiber -> FiberState]
    BY NoneLostParts DEF PlacementInv, DeliveryInv, TypeOK, FiberTypeOK
<1>1. /\ UNCHANGED <<runQueue, chanVars, ioVars, stackVars>>
      /\ state' = [state EXCEPT ![current] = "Done"]
    BY DEF LoopExit
<1>2. ReadyQueued'
    BY <1>0, <1>1, QueuedKeep
<1>3. BlockedParked'
    BY <1>0, <1>1, KeepAllParked DEF chanVars, ioVars, stackVars
<1>4. SendCompletesInTime'
    BY <1>0, <1>1, KeepInTime DEF chanVars, stackVars
<1> QED BY <1>2, <1>3, <1>4 DEF NoneLost, ReadyQueued, BlockedParked

\* OpSpawn puts the new fiber in the run queue.
LEMMA SpawnPlacement ==
    ASSUME PlacementInv, OpSpawn
    PROVE  NoneLost' /\ SendCompletesInTime'
<1>0. /\ TypeOK /\ ReadyQueued /\ BlockedParked /\ state \in [Fiber -> FiberState]
      /\ nfibers \in 0 .. MaxFibers
    BY NoneLostParts DEF PlacementInv, DeliveryInv, TypeOK, FiberTypeOK
<1>1. /\ UNCHANGED <<chanVars, ioVars, stackVars>> /\ Enqueue(nfibers + 1)
      /\ nfibers + 1 \in Fiber /\ nfibers + 1 > nfibers
    BY <1>0, FiberFacts DEF OpSpawn
<1>2. waits[nfibers + 1] = NoTicket
    BY <1>1 DEF PlacementInv, DeliveryInv, Newborn
<1>3. /\ state'[nfibers + 1] = "Ready"
      /\ \A f \in Fiber : f # nfibers + 1 => state'[f] = state[f]
    BY <1>0, <1>1 DEF Enqueue
<1>4. ReadyQueued'
    BY <1>0, <1>1, QueuedEnqueue
<1>5. BlockedParked'
    BY <1>0, <1>1, <1>3, KeepAllParked DEF chanVars, ioVars, stackVars
<1>6. SendCompletesInTime'
    <2>1. NoTicket.kind = "none"
        BY DEF NoTicket
    <2> QED BY <1>0, <1>1, <1>2, <1>3, <2>1, KeepInTime DEF chanVars, stackVars
<1> QED BY <1>4, <1>5, <1>6 DEF NoneLost, ReadyQueued, BlockedParked

\* An asynchronous call parks the fiber with its I/O in flight.
LEMMA CallAsyncPlacement ==
    ASSUME PlacementInv, OpCallAsync
    PROVE  NoneLost' /\ SendCompletesInTime'
<1>0. /\ DeliveryInv /\ ReadyQueued /\ BlockedParked /\ state \in [Fiber -> FiberState]
      /\ waits \in [Fiber -> Ticket]
    BY NoneLostParts DEF PlacementInv, DeliveryInv, TypeOK, FiberTypeOK, StackTypeOK
<1>1. /\ InFiber /\ state' = [state EXCEPT ![current] = "Blocked"]
      /\ inflight' = inflight \cup {current} /\ waits' = [waits EXCEPT ![current] = IoTicket]
      /\ UNCHANGED <<runQueue, chanVars, pendingWakeups>>
    BY DEF OpCallAsync, Instruction
<1>2. current \in Fiber /\ state[current] = "Running"
    BY <1>0, <1>1, RunningFacts
<1>3. ReadyQueued'
    BY <1>0, <1>1, QueuedKeep
<1>4. BlockedParked'
    <2> SUFFICES ASSUME NEW f \in Fiber, state'[f] = "Blocked" PROVE Parked(f)'
        BY DEF BlockedParked
    <2>1. CASE f = current
        <3>1. waits'[f] = IoTicket /\ f \in inflight'
            BY <1>0, <1>1, <1>2, <2>1
        <3>2. ~\E i \in DOMAIN pendingWakeups' : pendingWakeups'[i] = f
            BY <1>0, <1>1, <1>2, <2>1 DEF DeliveryInv, WaitersAreBlocked, BlockedOnIo
        <3> QED BY <3>1, <3>2 DEF Parked, IoTicket
    <2>2. CASE f # current
        <3>1. Parked(f) /\ waits'[f] = waits[f] /\ (f \in inflight' <=> f \in inflight)
            BY <1>0, <1>1, <1>2, <2>2 DEF BlockedParked
        <3> QED BY <1>1, <3>1 DEF Parked, chanVars
    <2> QED BY <2>1, <2>2
<1>5. SendCompletesInTime'
    BY <1>0, <1>1, <1>2, KeepInTime DEF chanVars
<1> QED BY <1>3, <1>4, <1>5 DEF NoneLost, ReadyQueued, BlockedParked

\* The I/O of a fiber ends: it moves from in flight to pendingWakeups.
LEMMA IoDonePlacement ==
    ASSUME PlacementInv, NEW w \in Fiber, IoDone(w)
    PROVE  NoneLost' /\ SendCompletesInTime'
<1>0. /\ DeliveryInv /\ ReadyQueued /\ BlockedParked /\ pendingWakeups \in Seq(Fiber)
    BY NoneLostParts DEF PlacementInv, DeliveryInv, TypeOK, IoTypeOK
<1>1. /\ w \in inflight /\ inflight' = inflight \ {w}
      /\ pendingWakeups' = Append(pendingWakeups, w)
      /\ UNCHANGED <<state, runQueue, chanVars, stackVars>>
    BY DEF IoDone, fiberVars
<1>2. /\ DOMAIN pendingWakeups = 1 .. Len(pendingWakeups) /\ Len(pendingWakeups) \in Nat
      /\ DOMAIN pendingWakeups' = 1 .. (Len(pendingWakeups) + 1)
      /\ \A i \in 1 .. Len(pendingWakeups) : pendingWakeups'[i] = pendingWakeups[i]
      /\ pendingWakeups'[Len(pendingWakeups) + 1] = w
    BY <1>0, <1>1, AppendFacts
<1>3. ReadyQueued'
    BY <1>0, <1>1, QueuedKeep
<1>4. BlockedParked'
    <2> SUFFICES ASSUME NEW f \in Fiber, state'[f] = "Blocked" PROVE Parked(f)'
        BY DEF BlockedParked
    <2>1. Parked(f) /\ waits'[f] = waits[f]
        BY <1>0, <1>1 DEF BlockedParked, stackVars
    <2>2. CASE f = w
        <3>1. waits'[f] = IoTicket /\ f \notin inflight'
            BY <1>0, <1>1, <2>1, <2>2 DEF DeliveryInv, WaitersAreBlocked, BlockedOnIo
        <3>2. \E i \in DOMAIN pendingWakeups' : pendingWakeups'[i] = f
            BY <1>2, <2>2
        <3> QED BY <3>1, <3>2 DEF Parked, IoTicket
    <2>3. CASE f # w
        <3>1. f \in inflight' <=> f \in inflight
            BY <1>1, <2>3
        <3>2. (\E i \in DOMAIN pendingWakeups' : pendingWakeups'[i] = f)
                <=> (\E i \in DOMAIN pendingWakeups : pendingWakeups[i] = f)
            BY <1>2, <2>3
        <3> QED BY <1>1, <2>1, <3>1, <3>2 DEF Parked, chanVars
    <2> QED BY <2>2, <2>3
<1>5. SendCompletesInTime'
    BY <1>1, KeepInTime DEF chanVars, stackVars
<1> QED BY <1>3, <1>4, <1>5 DEF NoneLost, ReadyQueued, BlockedParked

\* A new channel has nobody waiting on it.
LEMMA MakeChannelPlacement ==
    ASSUME PlacementInv, OpMakeChannel
    PROVE  NoneLost' /\ SendCompletesInTime'
<1>0. /\ TypeOK /\ ReadyQueued /\ BlockedParked /\ nextChanId \in Nat
      /\ capacity \in [Chan -> Nat]
    BY NoneLostParts DEF PlacementInv, DeliveryInv, TypeOK, ChanTypeOK
<1>1. /\ UNCHANGED <<state, runQueue, waits, ioVars, sendQueue, recvQueue, asked>>
      /\ \E cap : capacity' = [capacity EXCEPT ![nextChanId + 1] = cap]
    BY DEF OpMakeChannel, fiberVars, stackVars
<1>2. ReadyQueued'
    BY <1>0, <1>1, QueuedKeep
<1>3. BlockedParked'
    BY <1>0, <1>1, KeepAllParked DEF ioVars
<1>4. \A c \in Made : capacity'[c] = capacity[c]
    BY <1>0, <1>1, MadeInChan DEF Made
<1>5. SendCompletesInTime'
    BY <1>1, <1>4 DEF PlacementInv, SendCompletesInTime, Existing
<1> QED BY <1>2, <1>3, <1>5 DEF NoneLost, ReadyQueued, BlockedParked

--------------------------------------------------------------------------------
(* No fiber is lost, and a sender that goes on has room: sends, receives.  *)

\* An element that is not the first one is still in the queue's tail.
LEMMA TailHas ==
    ASSUME NEW S, NEW q \in Seq(S), q # << >>, NEW i \in DOMAIN q, i # 1
    PROVE  i - 1 \in DOMAIN Tail(q) /\ Tail(q)[i - 1] = q[i]
OBVIOUS

\* A receive asks for one value more on its channel.
LEMMA AskedGrows ==
    ASSUME TypeOK, NEW c \in Chan, asked'[c] = asked[c] + 1,
           \A d \in Chan : d # c => asked'[d] = asked[d]
    PROVE  \A d \in Chan : asked'[d] >= asked[d]
<1> TAKE d \in Chan
<1>1. asked[d] \in Nat
    BY DEF TypeOK, ChanTypeOK
<1>2. CASE d = c
    BY <1>1, <1>2
<1>3. CASE d # c
    BY <1>1, <1>3
<1> QED BY <1>2, <1>3

\* The senders that may go on after an operation on a channel.
LEMMA OpInTime ==
    ASSUME PlacementInv, TypeOK', UNCHANGED capacity,
           \A d \in Chan : asked'[d] >= asked[d],
           \A f \in Fiber : state'[f] = "Ready" /\ waits'[f].kind = "send" =>
               \/ state[f] = "Ready" /\ waits'[f] = waits[f]
               \/ waits'[f].n <= asked'[waits'[f].chan] + capacity[waits'[f].chan]
    PROVE  SendCompletesInTime'
<1> SUFFICES ASSUME NEW f \in Fiber, state'[f] = "Ready", waits'[f].kind = "send"
             PROVE  waits'[f].n <= asked'[waits'[f].chan] + capacity[waits'[f].chan]
    BY DEF SendCompletesInTime
<1>1. CASE state[f] = "Ready" /\ waits'[f] = waits[f]
    <2> DEFINE d == waits[f].chan
               n == waits[f].n
    <2>1. d \in Chan
        BY <1>1, MadeInChan DEF PlacementInv, DeliveryInv, Existing
    <2>2. n <= asked[d] + capacity[d]
        BY <1>1 DEF PlacementInv, SendCompletesInTime
    <2>3. n \in Nat
        BY DEF PlacementInv, DeliveryInv, TypeOK, StackTypeOK, Ticket
    <2>4. asked[d] \in Nat /\ capacity[d] \in Nat
        BY <2>1 DEF PlacementInv, DeliveryInv, TypeOK, ChanTypeOK
    <2>5. asked'[d] \in Nat /\ asked'[d] >= asked[d]
        BY <2>1 DEF TypeOK, ChanTypeOK
    <2> HIDE DEF d, n
    <2>6. n <= asked'[d] + capacity[d]
        BY <2>2, <2>3, <2>4, <2>5
    <2> QED BY <1>1, <2>6 DEF d, n
<1> QED BY <1>1

\* A send that wakes the first waiting receiver.
LEMMA HandoffPlacement ==
    ASSUME PlacementInv, TypeOK', NEW c \in Chan, SendHandoff(c)
    PROVE  NoneLost' /\ SendCompletesInTime'
<1> DEFINE q == recvQueue[c]
           w == Head(q)
<1>0. DeliveryInv /\ TypeOK /\ RunQueueReady /\ ReadyQueued /\ BlockedParked
    BY NoneLostParts DEF PlacementInv, DeliveryInv
<1>1. /\ StartSend(c) /\ q # << >> /\ recvQueue' = [recvQueue EXCEPT ![c] = Tail(@)]
      /\ EnqueueBoth(w, current) /\ UNCHANGED sendQueue
    BY DEF SendHandoff
<1>2. /\ InFiber /\ UNCHANGED <<capacity, asked, ioVars>>
      /\ waits'[current] = SendTicket(c, sent[c] + 1)
      /\ \A f \in Fiber : f # current => waits'[f] = waits[f]
    BY <1>0, <1>1, StartSendFacts
<1>3. current \in Fiber /\ state[current] = "Running"
    BY <1>0, <1>2, RunningFacts
<1>4. /\ Contents(c) /\ Rendezvous(c) /\ BlockedReceivers(c) /\ q \in Seq(Fiber)
      /\ asked[c] \in Nat /\ capacity[c] \in Nat /\ count[c] \in Nat
    BY <1>0, ChannelFacts
<1>5. /\ Len(q) \in Nat /\ Len(q) > 0 /\ 1 \in DOMAIN q /\ w = q[1] /\ q[1] \in Fiber
    BY <1>1, <1>4, QueueFacts
<1>6. state[w] = "Blocked" /\ waits[w] = RecvTicket(c, Delivered(c) + 1)
    BY <1>4, <1>5 DEF BlockedReceivers
<1>7. /\ state'[w] = "Ready" /\ state'[current] = "Ready"
      /\ \A f \in Fiber : f # w /\ f # current => state'[f] = state[f]
    BY <1>0, <1>1, <1>3, <1>5, <1>6, EnqueueBothOnce
<1>8. ReadyQueued'
    BY <1>0, <1>1, <1>3, <1>5, QueuedEnqueueBoth
<1>9. recvQueue'[c] = Tail(q) /\ \A d \in Chan : d # c => recvQueue'[d] = recvQueue[d]
    BY <1>0, <1>1 DEF TypeOK, ChanTypeOK
<1>10. BlockedParked'
    <2> SUFFICES ASSUME NEW f \in Fiber, state'[f] = "Blocked" PROVE Parked(f)'
        BY DEF BlockedParked
    <2>1. f # w /\ f # current /\ state[f] = "Blocked" /\ waits'[f] = waits[f] /\ Parked(f)
        BY <1>0, <1>2, <1>7 DEF BlockedParked
    <2>2. CASE waits[f].kind = "recv" /\ waits[f].chan = c
        <3>1. PICK i \in DOMAIN q : q[i] = f
            BY <2>1, <2>2 DEF Parked
        <3>2. i - 1 \in DOMAIN Tail(q) /\ Tail(q)[i - 1] = f
            BY <1>1, <1>4, <1>5, <2>1, <3>1, TailHas
        <3> QED BY <1>9, <2>1, <2>2, <3>2, ZenonT(40) DEF Parked
    <2>3. CASE ~(waits[f].kind = "recv" /\ waits[f].chan = c)
        BY <1>1, <1>2, <1>9, <2>1, <2>3, KeepParkedElsewhere
    <2> QED BY <2>2, <2>3
<1>11. SendCompletesInTime'
    <2>1. sent[c] + 1 <= asked[c] + capacity[c]
        <3>1. count[c] = 0 /\ sendQueue[c] = << >>
            BY <1>1, <1>4 DEF Rendezvous
        <3>2. Len(sendQueue[c]) = 0
            BY <3>1
        <3>3. sent[c] = asked[c] - Len(q)
            BY <1>4, <1>5, <3>1, <3>2 DEF Contents, Delivered
        <3> QED BY <1>4, <1>5, <3>3
    <2>2. waits'[current].n = sent[c] + 1 /\ waits'[current].chan = c
        BY <1>2 DEF SendTicket
    <2>3. waits[w].kind # "send"
        BY <1>6 DEF RecvTicket
    <2>4. \A d \in Chan : asked'[d] >= asked[d]
        BY <1>0, <1>2 DEF TypeOK, ChanTypeOK
    <2>5. \A f \in Fiber : state'[f] = "Ready" /\ waits'[f].kind = "send" =>
               \/ state[f] = "Ready" /\ waits'[f] = waits[f]
               \/ waits'[f].n <= asked'[waits'[f].chan] + capacity[waits'[f].chan]
        BY <1>2, <1>3, <1>5, <1>6, <1>7, <2>1, <2>2, <2>3
    <2> QED BY <1>2, <2>4, <2>5, OpInTime
<1> QED BY <1>8, <1>10, <1>11 DEF NoneLost, ReadyQueued, BlockedParked

\* A send into the buffer.
LEMMA SendBufferPlacement ==
    ASSUME PlacementInv, TypeOK', NEW c \in Chan, SendBuffer(c)
    PROVE  NoneLost' /\ SendCompletesInTime'
<1>0. DeliveryInv /\ TypeOK /\ RunQueueReady /\ ReadyQueued /\ BlockedParked
    BY NoneLostParts DEF PlacementInv, DeliveryInv
<1>1. /\ StartSend(c) /\ recvQueue[c] = << >> /\ count[c] < capacity[c]
      /\ Enqueue(current) /\ UNCHANGED <<sendQueue, recvQueue>>
    BY DEF SendBuffer, HasSpace
<1>2. /\ InFiber /\ UNCHANGED <<capacity, asked, ioVars>>
      /\ waits'[current] = SendTicket(c, sent[c] + 1)
      /\ \A f \in Fiber : f # current => waits'[f] = waits[f]
    BY <1>0, <1>1, StartSendFacts
<1>3. current \in Fiber /\ state[current] = "Running"
    BY <1>0, <1>2, RunningFacts
<1>4. /\ Contents(c) /\ Rendezvous(c)
      /\ asked[c] \in Nat /\ capacity[c] \in Nat /\ count[c] \in Nat
    BY <1>0, ChannelFacts
<1>5. /\ state'[current] = "Ready"
      /\ \A f \in Fiber : f # current => state'[f] = state[f]
    BY <1>0, <1>1, <1>3, EnqueueOnce
<1>6. ReadyQueued'
    BY <1>0, <1>1, <1>3, QueuedEnqueue
<1>7. BlockedParked'
    BY <1>0, <1>1, <1>2, <1>5, KeepAllParked DEF ioVars
<1>8. SendCompletesInTime'
    <2>1. sent[c] + 1 <= asked[c] + capacity[c]
        <3>1. sendQueue[c] = << >>
            BY <1>1, <1>4 DEF Rendezvous
        <3>2. Len(sendQueue[c]) = 0 /\ Len(recvQueue[c]) = 0
            BY <1>1, <3>1
        <3>3. sent[c] = asked[c] + count[c]
            BY <1>4, <3>2 DEF Contents, Delivered
        <3> QED BY <1>1, <1>4, <3>3
    <2>2. waits'[current].n = sent[c] + 1 /\ waits'[current].chan = c
        BY <1>2 DEF SendTicket
    <2>3. \A d \in Chan : asked'[d] >= asked[d]
        BY <1>0, <1>2 DEF TypeOK, ChanTypeOK
    <2> QED BY <1>2, <1>5, <2>1, <2>2, <2>3, OpInTime
<1> QED BY <1>6, <1>7, <1>8 DEF NoneLost, ReadyQueued, BlockedParked

\* A send that blocks joins the senders of the channel.
LEMMA SendBlockPlacement ==
    ASSUME PlacementInv, TypeOK', NEW c \in Chan, SendBlock(c)
    PROVE  NoneLost' /\ SendCompletesInTime'
<1> DEFINE q == sendQueue[c]
           x == [fiber |-> current, value |-> sent[c] + 1]
<1>0. DeliveryInv /\ TypeOK /\ ReadyQueued /\ BlockedParked /\ state \in [Fiber -> FiberState]
    BY NoneLostParts DEF PlacementInv, DeliveryInv, TypeOK, FiberTypeOK
<1>1. /\ StartSend(c) /\ state' = [state EXCEPT ![current] = "Blocked"]
      /\ sendQueue' = [sendQueue EXCEPT ![c] = Append(@, x)]
      /\ UNCHANGED <<runQueue, recvQueue>>
    BY DEF SendBlock
<1>2. /\ InFiber /\ UNCHANGED <<capacity, asked, ioVars>> /\ sent[c] \in Nat
      /\ waits'[current] = SendTicket(c, sent[c] + 1)
      /\ \A f \in Fiber : f # current => waits'[f] = waits[f]
    BY <1>0, <1>1, StartSendFacts
<1>3. current \in Fiber /\ state[current] = "Running"
    BY <1>0, <1>2, RunningFacts
<1>4. q \in Seq(SenderWait) /\ x \in SenderWait
    <2>1. q \in Seq(SenderWait)
        BY <1>0, ChannelFacts
    <2>2. sent[c] + 1 \in Nat
        BY <1>2
    <2>3. x \in SenderWait
        BY <1>3, <2>2 DEF SenderWait
    <2> QED BY <2>1, <2>3
<1>5. /\ Len(q) \in Nat /\ DOMAIN q = 1 .. Len(q) /\ DOMAIN Append(q, x) = 1 .. (Len(q) + 1)
      /\ \A i \in 1 .. Len(q) : Append(q, x)[i] = q[i]
      /\ Append(q, x)[Len(q) + 1] = x
    BY <1>4, AppendFacts
<1>6. sendQueue'[c] = Append(q, x) /\ \A d \in Chan : d # c => sendQueue'[d] = sendQueue[d]
    BY <1>0, <1>1 DEF TypeOK, ChanTypeOK
<1>7. ReadyQueued'
    BY <1>0, <1>1, QueuedKeep
<1>8. BlockedParked'
    <2> SUFFICES ASSUME NEW f \in Fiber, state'[f] = "Blocked" PROVE Parked(f)'
        BY DEF BlockedParked
    <2>1. CASE f = current
        <3>1. waits'[f].kind = "send" /\ waits'[f].chan = c /\ waits'[f].n = sent[c] + 1
            BY <1>2, <2>1 DEF SendTicket
        <3>2. Len(q) + 1 \in DOMAIN sendQueue'[c] /\ sendQueue'[c][Len(q) + 1] = x
            BY <1>5, <1>6
        <3> QED BY <2>1, <3>1, <3>2 DEF Parked
    <2>2. CASE f # current
        <3>1. state[f] = "Blocked" /\ waits'[f] = waits[f] /\ Parked(f)
            BY <1>0, <1>1, <1>2, <2>2 DEF BlockedParked
        <3>2. CASE waits[f].kind = "send" /\ waits[f].chan = c
            <4>1. PICK i \in DOMAIN q : q[i] = [fiber |-> f, value |-> waits[f].n]
                BY <3>1, <3>2 DEF Parked
            <4>2. i \in DOMAIN sendQueue'[c] /\ sendQueue'[c][i] = q[i]
                BY <1>5, <1>6
            <4> QED BY <3>1, <3>2, <4>1, <4>2 DEF Parked
        <3>3. CASE ~(waits[f].kind = "send" /\ waits[f].chan = c)
            BY <1>1, <1>2, <1>6, <3>1, <3>3, KeepParkedElsewhere
        <3> QED BY <3>2, <3>3
    <2> QED BY <2>1, <2>2
<1>9. SendCompletesInTime'
    BY <1>0, <1>1, <1>2, <1>3, KeepInTime
<1> QED BY <1>7, <1>8, <1>9 DEF NoneLost, ReadyQueued, BlockedParked

\* A receive from the buffer with no sender waiting.
LEMMA ReceiveBufferPlacement ==
    ASSUME PlacementInv, TypeOK', NEW c \in Chan, ReceiveBuffer(c)
    PROVE  NoneLost' /\ SendCompletesInTime'
<1>0. DeliveryInv /\ TypeOK /\ RunQueueReady /\ ReadyQueued /\ BlockedParked
    BY NoneLostParts DEF PlacementInv, DeliveryInv
<1>1. StartReceive(c) /\ Enqueue(current) /\ UNCHANGED <<sendQueue, recvQueue>>
    BY DEF ReceiveBuffer, TakeOldest
<1>2. /\ InFiber /\ UNCHANGED <<capacity, ioVars>>
      /\ asked'[c] = asked[c] + 1 /\ asked[c] \in Nat
      /\ \A d \in Chan : d # c => asked'[d] = asked[d]
      /\ waits'[current] = RecvTicket(c, asked[c] + 1)
      /\ \A f \in Fiber : f # current => waits'[f] = waits[f]
    BY <1>0, <1>1, StartReceiveFacts
<1>3. current \in Fiber /\ state[current] = "Running"
    BY <1>0, <1>2, RunningFacts
<1>4. /\ state'[current] = "Ready"
      /\ \A f \in Fiber : f # current => state'[f] = state[f]
    BY <1>0, <1>1, <1>3, EnqueueOnce
<1>5. ReadyQueued'
    BY <1>0, <1>1, <1>3, QueuedEnqueue
<1>6. BlockedParked'
    BY <1>0, <1>1, <1>2, <1>4, KeepAllParked DEF ioVars
<1>7. SendCompletesInTime'
    <2>1. \A d \in Chan : asked'[d] >= asked[d]
        BY <1>0, <1>2, AskedGrows
    <2>2. waits'[current].kind = "recv"
        BY <1>2 DEF RecvTicket
    <2> QED BY <1>2, <1>4, <2>1, <2>2, OpInTime
<1> QED BY <1>5, <1>6, <1>7 DEF NoneLost, ReadyQueued, BlockedParked

\* The oldest waiting sender is released by a receive.
LEMMA ReleasePlacement ==
    ASSUME PlacementInv, TypeOK', NEW c \in Chan, StartReceive(c), sendQueue[c] # << >>,
           sendQueue' = [sendQueue EXCEPT ![c] = Tail(@)],
           EnqueueBoth(Head(sendQueue[c]).fiber, current), UNCHANGED recvQueue
    PROVE  NoneLost' /\ SendCompletesInTime'
<1> DEFINE q == sendQueue[c]
           w == Head(q).fiber
<1>0. DeliveryInv /\ TypeOK /\ ReadyQueued /\ BlockedParked
    BY NoneLostParts DEF PlacementInv, DeliveryInv
<1>2. /\ InFiber /\ UNCHANGED <<capacity, ioVars>>
      /\ asked'[c] = asked[c] + 1 /\ asked[c] \in Nat
      /\ \A d \in Chan : d # c => asked'[d] = asked[d]
      /\ waits'[current] = RecvTicket(c, asked[c] + 1)
      /\ \A f \in Fiber : f # current => waits'[f] = waits[f]
    BY <1>0, StartReceiveFacts
<1>3. current \in Fiber /\ state[current] = "Running"
    BY <1>0, <1>2, RunningFacts
<1>4. /\ w \in Fiber /\ w # current /\ state[w] = "Blocked"
      /\ waits[w] = SendTicket(c, Head(q).value)
      /\ Head(q).value = Delivered(c) + count[c] + 1
      /\ state'[w] = "Ready" /\ state'[current] = "Ready"
      /\ \A f \in Fiber : f # w /\ f # current => state'[f] = state[f]
      /\ sendQueue'[c] = Tail(q)
      /\ \A d \in Chan : d # c => sendQueue'[d] = sendQueue[d]
    BY <1>0, <1>2, SenderWoken
<1>5. /\ Contents(c) /\ Rendezvous(c) /\ q \in Seq(SenderWait) /\ recvQueue[c] \in Seq(Fiber)
      /\ asked[c] \in Nat /\ capacity[c] \in Nat /\ count[c] \in Nat
    BY <1>0, ChannelFacts
<1>6. Head(q) = q[1]
    BY <1>5, QueueFacts
<1>7. ReadyQueued'
    BY <1>0, <1>3, <1>4, QueuedEnqueueBoth
<1>8. BlockedParked'
    <2> SUFFICES ASSUME NEW f \in Fiber, state'[f] = "Blocked" PROVE Parked(f)'
        BY DEF BlockedParked
    <2>1. f # w /\ f # current /\ state[f] = "Blocked" /\ waits'[f] = waits[f] /\ Parked(f)
        BY <1>0, <1>2, <1>4 DEF BlockedParked
    <2>2. CASE waits[f].kind = "send" /\ waits[f].chan = c
        <3>1. PICK i \in DOMAIN q : q[i] = [fiber |-> f, value |-> waits[f].n]
            BY <2>1, <2>2 DEF Parked
        <3>2. i # 1
            BY <1>6, <2>1, <3>1
        <3>3. i - 1 \in DOMAIN Tail(q) /\ Tail(q)[i - 1] = q[i]
            BY <1>5, <3>2, TailHas
        <3> QED BY <1>4, <2>1, <2>2, <3>1, <3>3 DEF Parked
    <2>3. CASE ~(waits[f].kind = "send" /\ waits[f].chan = c)
        BY <1>2, <1>4, <2>1, <2>3, KeepParkedElsewhere
    <2> QED BY <2>2, <2>3
<1>9. SendCompletesInTime'
    <2>1. Head(q).value <= asked'[c] + capacity[c]
        <3>1. recvQueue[c] = << >> /\ count[c] = capacity[c]
            BY <1>5 DEF Rendezvous
        <3>2. Len(recvQueue[c]) = 0
            BY <3>1
        <3>3. Head(q).value = asked[c] + count[c] + 1
            BY <1>4, <1>5, <3>2 DEF Delivered
        <3> QED BY <1>2, <1>5, <3>1, <3>3
    <2>2. waits'[w].n = Head(q).value /\ waits'[w].chan = c
        BY <1>2, <1>4 DEF SendTicket
    <2>3. waits'[current].kind = "recv"
        BY <1>2 DEF RecvTicket
    <2>4. \A d \in Chan : asked'[d] >= asked[d]
        BY <1>0, <1>2, AskedGrows
    <2>5. \A f \in Fiber : state'[f] = "Ready" /\ waits'[f].kind = "send" =>
               \/ state[f] = "Ready" /\ waits'[f] = waits[f]
               \/ waits'[f].n <= asked'[waits'[f].chan] + capacity[waits'[f].chan]
        BY <1>2, <1>4, <2>1, <2>2, <2>3
    <2> QED BY <1>2, <2>4, <2>5, OpInTime
<1> QED BY <1>7, <1>8, <1>9 DEF NoneLost, ReadyQueued, BlockedParked

\* A receive that blocks joins the receivers of the channel.
LEMMA ReceiveBlockPlacement ==
    ASSUME PlacementInv, TypeOK', NEW c \in Chan, ReceiveBlock(c)
    PROVE  NoneLost' /\ SendCompletesInTime'
<1> DEFINE q == recvQueue[c]
<1>0. DeliveryInv /\ TypeOK /\ ReadyQueued /\ BlockedParked /\ state \in [Fiber -> FiberState]
    BY NoneLostParts DEF PlacementInv, DeliveryInv, TypeOK, FiberTypeOK
<1>1. /\ StartReceive(c) /\ state' = [state EXCEPT ![current] = "Blocked"]
      /\ recvQueue' = [recvQueue EXCEPT ![c] = Append(@, current)]
      /\ UNCHANGED <<runQueue, sendQueue>>
    BY DEF ReceiveBlock
<1>2. /\ InFiber /\ UNCHANGED <<capacity, ioVars>>
      /\ asked'[c] = asked[c] + 1 /\ asked[c] \in Nat
      /\ \A d \in Chan : d # c => asked'[d] = asked[d]
      /\ waits'[current] = RecvTicket(c, asked[c] + 1)
      /\ \A f \in Fiber : f # current => waits'[f] = waits[f]
    BY <1>0, <1>1, StartReceiveFacts
<1>3. current \in Fiber /\ state[current] = "Running"
    BY <1>0, <1>2, RunningFacts
<1>4. q \in Seq(Fiber)
    BY <1>0, ChannelFacts
<1>5. /\ Len(q) \in Nat /\ DOMAIN q = 1 .. Len(q)
      /\ DOMAIN Append(q, current) = 1 .. (Len(q) + 1)
      /\ \A i \in 1 .. Len(q) : Append(q, current)[i] = q[i]
      /\ Append(q, current)[Len(q) + 1] = current
    BY <1>3, <1>4, AppendFacts
<1>6. /\ recvQueue'[c] = Append(q, current)
      /\ \A d \in Chan : d # c => recvQueue'[d] = recvQueue[d]
    BY <1>0, <1>1 DEF TypeOK, ChanTypeOK
<1>7. ReadyQueued'
    BY <1>0, <1>1, QueuedKeep
<1>8. BlockedParked'
    <2> SUFFICES ASSUME NEW f \in Fiber, state'[f] = "Blocked" PROVE Parked(f)'
        BY DEF BlockedParked
    <2>1. CASE f = current
        <3>1. waits'[f].kind = "recv" /\ waits'[f].chan = c
            BY <1>2, <2>1 DEF RecvTicket
        <3>2. Len(q) + 1 \in DOMAIN recvQueue'[c] /\ recvQueue'[c][Len(q) + 1] = current
            BY <1>5, <1>6
        <3> QED BY <2>1, <3>1, <3>2 DEF Parked
    <2>2. CASE f # current
        <3>1. state[f] = "Blocked" /\ waits'[f] = waits[f] /\ Parked(f)
            BY <1>0, <1>1, <1>2, <2>2 DEF BlockedParked
        <3>2. CASE waits[f].kind = "recv" /\ waits[f].chan = c
            <4>1. PICK i \in DOMAIN q : q[i] = f
                BY <3>1, <3>2 DEF Parked
            <4>2. i \in DOMAIN recvQueue'[c] /\ recvQueue'[c][i] = q[i]
                BY <1>5, <1>6
            <4> QED BY <3>1, <3>2, <4>1, <4>2 DEF Parked
        <3>3. CASE ~(waits[f].kind = "recv" /\ waits[f].chan = c)
            BY <1>1, <1>2, <1>6, <3>1, <3>3, KeepParkedElsewhere
        <3> QED BY <3>2, <3>3
    <2> QED BY <2>1, <2>2
<1>9. SendCompletesInTime'
    <2>1. \A d \in Chan : asked'[d] >= asked[d]
        BY <1>0, <1>2, AskedGrows
    <2>2. \A f \in Fiber : state'[f] = "Ready" => state[f] = "Ready" /\ waits'[f] = waits[f]
        BY <1>0, <1>1, <1>2, <1>3
    <2> QED BY <1>2, <2>1, <2>2, OpInTime
<1> QED BY <1>7, <1>8, <1>9 DEF NoneLost, ReadyQueued, BlockedParked

--------------------------------------------------------------------------------
(* The placement invariant is inductive.                                   *)

\* The invariant holds at the start.
LEMMA InitPlacement == Init => PlacementInv
<1> SUFFICES ASSUME Init PROVE PlacementInv
    OBVIOUS
<1>1. DeliveryInv
    BY InitDelivery
<1> USE DEF Init
<1>2. NoneLost
    BY DEF NoneLost
<1>3. Existing
    BY DEF Existing, Fiber, Main, NoTicket
<1>4. Stopped
    BY DEF Stopped
<1>5. IoAccounted
    BY FS_EmptySet DEF IoAccounted
<1>6. SendCompletesInTime
    BY DEF SendCompletesInTime, NoTicket
<1> QED BY <1>1, <1>2, <1>3, <1>4, <1>5, <1>6 DEF PlacementInv

\* Every step keeps the invariant.
LEMMA NextPlacement == PlacementInv /\ [Next]_vars => PlacementInv'
<1> SUFFICES ASSUME PlacementInv, [Next]_vars PROVE PlacementInv'
    OBVIOUS
<1>0. DeliveryInv /\ TypeOK /\ DeliveryInv' /\ TypeOK'
    BY NextDelivery DEF PlacementInv, DeliveryInv
<1>1. IoAccounted' /\ Stopped' /\ Existing'
    BY <1>0, NextIoAccounted, NextStopped, NextExisting DEF PlacementInv
<1>2. NoneLost' /\ SendCompletesInTime'
    <2>1. CASE UNCHANGED vars
        BY <2>1, QuietPlacement DEF vars, fiberVars, stackVars
    <2>2. CASE TakeWakeup
        BY <2>2, WakeupPlacement
    <2>3. CASE DrainDone \/ Idle \/ Exit
        BY <2>3, QuietPlacement DEF DrainDone, Idle, Exit, fiberVars, stackVars
    <2>4. CASE Dispatch
        BY <2>4, DispatchPlacement
    <2>5. CASE Requeue
        BY <2>5, RequeuePlacement
    <2>6. CASE Preempt \/ OpOther \/ RuntimeError \/ OpReturn \/ StartBuiltin \/ BuiltinReturns
        BY <2>6, QuietPlacement DEF Preempt, OpOther, RuntimeError, OpReturn, StartBuiltin,
           BuiltinReturns, fiberVars, stackVars
    <2>7. CASE LoopExit
        BY <2>7, LoopExitPlacement
    <2>8. CASE OpSpawn
        BY <2>8, SpawnPlacement
    <2>9. CASE OpCallAsync
        BY <2>9, CallAsyncPlacement
    <2>10. CASE OpMakeChannel
        BY <2>10, MakeChannelPlacement
    <2>11. ASSUME NEW c \in Chan, OpSend(c) PROVE NoneLost' /\ SendCompletesInTime'
        BY <1>0, <2>11, HandoffPlacement, SendBufferPlacement, SendBlockPlacement DEF OpSend
    <2>12. ASSUME NEW c \in Chan, OpReceive(c) PROVE NoneLost' /\ SendCompletesInTime'
        <3>1. CASE ReceiveUnblock(c)
            BY <1>0, <3>1, ReleasePlacement DEF ReceiveUnblock, TakeOldest
        <3>2. CASE ReceiveRendezvous(c)
            BY <1>0, <3>2, ReleasePlacement DEF ReceiveRendezvous
        <3> QED BY <1>0, <2>12, <3>1, <3>2, ReceiveBufferPlacement, ReceiveBlockPlacement
            DEF OpReceive
    <2>13. ASSUME NEW f \in Fiber, IoDone(f) PROVE NoneLost' /\ SendCompletesInTime'
        BY <2>13, IoDonePlacement
    <2> QED
        BY <2>1, <2>2, <2>3, <2>4, <2>5, <2>6, <2>7, <2>8, <2>9, <2>10, <2>11, <2>12, <2>13
        DEF Next, VMStep, RunStep, FiberStep, DrainWakeups, WaitWakeup, Finished
<1> QED BY <1>0, <1>1, <1>2 DEF PlacementInv

(* The placement invariant holds in every reachable state, for any number  *)
(* of fibers, channels and operations and any buffer sizes.  (Run, send,   *)
(* receive, callBuiltIn, drainWakeups, OpSpawn)                            *)
THEOREM PlacementInvariant == Spec => []PlacementInv
BY InitPlacement, NextPlacement, PTL DEF Spec

--------------------------------------------------------------------------------
(* What the invariant says of the scheduler.                               *)

\* A ready fiber has one position in the run queue, any other fiber none.
LEMMA RunQueuePositions ==
    ASSUME PlacementInv, NEW f \in Fiber
    PROVE  Cardinality(Positions(f)) = IF state[f] = "Ready" THEN 1 ELSE 0
<1>1. CASE state[f] = "Ready"
    <2>1. PICK i \in DOMAIN runQueue : runQueue[i] = f
        BY <1>1 DEF PlacementInv, NoneLost
    <2>2. Positions(f) = {i}
        BY <2>1 DEF PlacementInv, DeliveryInv, RunQueueReady, Positions
    <2> QED BY <1>1, <2>2, FS_Singleton
<1>2. CASE state[f] # "Ready"
    <2>1. Positions(f) = {}
        BY <1>2 DEF PlacementInv, DeliveryInv, RunQueueReady, Positions
    <2> QED BY <1>2, <2>1, FS_EmptySet
<1> QED BY <1>1, <1>2

(* Every live fiber is in exactly one place: a ready fiber once in the run *)
(* queue, a running one only as the current fiber, a suspended one where   *)
(* the operation that can wake it finds it.  (Add, next, enqueue, Run,     *)
(* send, receive, callBuiltIn)                                             *)
THEOREM EveryFiberInOnePlace == Spec => []OnePlace
<1>1. PlacementInv => OnePlace
    <2> SUFFICES ASSUME PlacementInv, NEW f \in Fiber
                 PROVE  /\ Cardinality(Positions(f)) = IF state[f] = "Ready" THEN 1 ELSE 0
                        /\ state[f] = "Running" =>
                             f = current /\ pc \in {"fiber", "builtin", "yielded", "error"}
                        /\ state[f] = "Blocked" => Parked(f)
        BY DEF OnePlace
    <2> QED BY RunQueuePositions DEF PlacementInv, DeliveryInv, OneRunning, NoneLost
<1> QED BY <1>1, PlacementInvariant, PTL

(* ioBlockedCount is the number of goroutines that have not delivered plus *)
(* the number of wakeups not taken: Run blocks only for a wakeup that will *)
(* come and gives up only when none will.  (callBuiltIn, drainWakeups,     *)
(* Run)                                                                    *)
THEOREM IoCounterExact == Spec => []IoAccounted
<1>1. PlacementInv => IoAccounted
    BY DEF PlacementInv
<1> QED BY <1>1, PlacementInvariant, PTL

(* A sender goes on only once at most capacity values are ahead of the     *)
(* receivers, on an unbuffered channel only once a receiver asked for its  *)
(* value.  (send, receive)                                                 *)
THEOREM SendersWaitForRoom == Spec => []SendCompletesInTime
<1>1. PlacementInv => SendCompletesInTime
    BY DEF PlacementInv
<1> QED BY <1>1, PlacementInvariant, PTL

\* When Run has returned, nothing can run and no I/O is outstanding.
LEMMA NothingLeftToRun ==
    ASSUME PlacementInv, pc \in {"ok", "deadlock"}
    PROVE  /\ \A f \in Fiber : state[f] \in {"Unborn", "Blocked", "Done"}
           /\ inflight = {} /\ pendingWakeups = << >>
<1>1. runQueue = << >> /\ ioBlockedCount = 0
    BY DEF PlacementInv, Stopped
<1>2. \A f \in Fiber : state[f] # "Ready"
    BY <1>1 DEF PlacementInv, NoneLost
<1>3. \A f \in Fiber : state[f] # "Running"
    BY DEF PlacementInv, DeliveryInv, OneRunning
<1>4. \A f \in Fiber : state[f] \in FiberState
    BY DEF PlacementInv, DeliveryInv, TypeOK, FiberTypeOK
<1>5. IsFiniteSet(inflight) /\ pendingWakeups \in Seq(Fiber)
    <2>1. IsFiniteSet(Fiber)
        BY BoundsAssumption, FS_Interval DEF Fiber, Main
    <2>2. inflight \in SUBSET Fiber /\ pendingWakeups \in Seq(Fiber)
        BY DEF PlacementInv, DeliveryInv, TypeOK, IoTypeOK
    <2> QED BY <2>1, <2>2, FS_Subset
<1>6. Cardinality(inflight) \in Nat /\ Len(pendingWakeups) \in Nat
    BY <1>5, FS_CardinalityType
<1>7. Cardinality(inflight) = 0 /\ Len(pendingWakeups) = 0
    BY <1>1, <1>6 DEF PlacementInv, IoAccounted
<1>8. inflight = {} /\ pendingWakeups = << >>
    BY <1>5, <1>7, FS_EmptySet
<1> QED BY <1>2, <1>3, <1>4, <1>8 DEF FiberState

(* Run reports a deadlock only when no fiber can run, no goroutine will    *)
(* wake one, and some spawned fiber waits on a channel.  (Run,             *)
(* hasBlockedFibers)                                                       *)
THEOREM DeadlockIsReal == Spec => []DeadlockReportSound
<1>1. PlacementInv => DeadlockReportSound
    <2> SUFFICES ASSUME PlacementInv, pc = "deadlock"
                 PROVE  /\ \A f \in Fiber : state[f] \in {"Unborn", "Blocked", "Done"}
                        /\ inflight = {} /\ pendingWakeups = << >>
                        /\ \E f \in 1 .. nfibers : \E c \in Made :
                             \/ \E i \in DOMAIN recvQueue[c] : recvQueue[c][i] = f
                             \/ \E i \in DOMAIN sendQueue[c] : sendQueue[c][i].fiber = f
        BY DEF DeadlockReportSound
    <2>1. /\ \A f \in Fiber : state[f] \in {"Unborn", "Blocked", "Done"}
          /\ inflight = {} /\ pendingWakeups = << >>
        BY NothingLeftToRun
    <2>2. PICK f \in 1 .. nfibers : state[f] = "Blocked"
        BY DEF PlacementInv, Stopped, HasBlockedFibers
    <2>3. f \in Fiber
        BY BoundsAssumption DEF PlacementInv, DeliveryInv, TypeOK, FiberTypeOK, Fiber, Main
    <2>4. Parked(f)
        BY <2>2, <2>3 DEF PlacementInv, NoneLost
    <2>5. waits[f].kind # "io"
        BY <2>1, <2>4 DEF Parked
    <2>6. waits[f].kind \in {"send", "recv"}
        BY <2>4, <2>5 DEF Parked
    <2>7. waits[f].chan \in Made
        BY <2>3, <2>6 DEF PlacementInv, Existing
    <2>8. \/ \E i \in DOMAIN recvQueue[waits[f].chan] : recvQueue[waits[f].chan][i] = f
          \/ \E i \in DOMAIN sendQueue[waits[f].chan] : sendQueue[waits[f].chan][i].fiber = f
        BY <2>4, <2>5 DEF Parked
    <2> QED BY <2>1, <2>7, <2>8
<1> QED BY <1>1, PlacementInvariant, PTL

(* When Run returns without an error every spawned fiber has run to its    *)
(* end and only the main fiber may have been left waiting to send.  (Run,  *)
(* hasBlockedFibers)                                                       *)
THEOREM OkIsReal == Spec => []OkMeansSpawnedDone
<1>1. PlacementInv => OkMeansSpawnedDone
    <2> SUFFICES ASSUME PlacementInv, pc = "ok"
                 PROVE  /\ \A f \in 1 .. nfibers : state[f] = "Done"
                        /\ \A c \in Made : \A i \in DOMAIN sendQueue[c] :
                             sendQueue[c][i].fiber = Main
        BY DEF OkMeansSpawnedDone
    <2>0. /\ TypeOK /\ nfibers \in Nat /\ 1 .. nfibers \subseteq Fiber
        BY BoundsAssumption DEF PlacementInv, DeliveryInv, TypeOK, FiberTypeOK, Fiber, Main
    <2>1. \A f \in 1 .. nfibers : state[f] # "Blocked"
        BY DEF PlacementInv, Stopped, HasBlockedFibers
    <2>2. \A f \in 1 .. nfibers : state[f] = "Done"
        BY <2>0, <2>1, NothingLeftToRun DEF PlacementInv, Existing
    <2>3. ASSUME NEW c \in Made, NEW i \in DOMAIN sendQueue[c]
          PROVE  sendQueue[c][i].fiber = Main
        <3>1. c \in Chan
            BY <2>0, MadeInChan
        <3>2. sendQueue[c] \in Seq(SenderWait) /\ BlockedSenders(c)
            BY <3>1, ChannelFacts DEF PlacementInv
        <3>3. sendQueue[c][i].fiber \in Fiber
            <4>1. sendQueue[c][i] \in SenderWait
                BY <3>2
            <4> QED BY <4>1 DEF SenderWait
        <3>4. state[sendQueue[c][i].fiber] = "Blocked"
            BY <3>2 DEF BlockedSenders
        <3>5. ~(sendQueue[c][i].fiber > nfibers)
            BY <3>3, <3>4 DEF PlacementInv, DeliveryInv, Newborn
        <3> QED BY <2>0, <2>1, <3>3, <3>4, <3>5 DEF Fiber, Main
    <2> QED BY <2>2, <2>3
<1> QED BY <1>1, PlacementInvariant, PTL

--------------------------------------------------------------------------------
(* The scheduler implements ChannelSpec.                                   *)

\* Dropping the oldest waiter, and adding one, seen without the values.
LEMMA SendersTail ==
    ASSUME NEW q \in Seq(SenderWait), q # << >>
    PROVE  [i \in DOMAIN Tail(q) |-> Tail(q)[i].fiber] = Tail([i \in DOMAIN q |-> q[i].fiber])
<1> DEFINE m == [i \in DOMAIN q |-> q[i].fiber]
<1>1. \A i \in DOMAIN q : q[i].fiber \in Fiber
    <2> TAKE i \in DOMAIN q
    <2>1. q[i] \in SenderWait
        OBVIOUS
    <2> QED BY <2>1 DEF SenderWait
<1>2. /\ DOMAIN q = 1 .. Len(q) /\ Len(q) \in Nat /\ Len(q) > 0
      /\ DOMAIN Tail(q) = 1 .. (Len(q) - 1)
      /\ \A i \in 1 .. (Len(q) - 1) : Tail(q)[i] = q[i + 1]
    OBVIOUS
<1>3. m \in Seq(Fiber) /\ Len(m) = Len(q) /\ m # << >>
    BY <1>1, <1>2
<1>4. Tail(m) = [i \in 1 .. (Len(q) - 1) |-> m[i + 1]]
    BY <1>2, <1>3
<1>5. \A i \in 1 .. (Len(q) - 1) : m[i + 1] = Tail(q)[i].fiber
    BY <1>2
<1> QED BY <1>2, <1>4, <1>5

\* The fibers of a queue of senders that grows.
LEMMA SendersAppend ==
    ASSUME NEW q \in Seq(SenderWait), NEW x \in SenderWait
    PROVE  [i \in DOMAIN Append(q, x) |-> Append(q, x)[i].fiber]
             = Append([i \in DOMAIN q |-> q[i].fiber], x.fiber)
<1> DEFINE m == [i \in DOMAIN q |-> q[i].fiber]
<1>1. \A i \in DOMAIN q : q[i].fiber \in Fiber
    <2> TAKE i \in DOMAIN q
    <2>1. q[i] \in SenderWait
        OBVIOUS
    <2> QED BY <2>1 DEF SenderWait
<1>2. /\ Len(q) \in Nat /\ DOMAIN q = 1 .. Len(q) /\ DOMAIN Append(q, x) = 1 .. (Len(q) + 1)
      /\ \A i \in 1 .. Len(q) : Append(q, x)[i] = q[i]
      /\ Append(q, x)[Len(q) + 1] = x
    BY AppendFacts
<1>3. m \in Seq(Fiber) /\ Len(m) = Len(q) /\ x.fiber \in Fiber
    BY <1>1, <1>2 DEF SenderWait
<1>4. /\ DOMAIN Append(m, x.fiber) = 1 .. (Len(q) + 1)
      /\ \A i \in 1 .. Len(q) : Append(m, x.fiber)[i] = m[i]
      /\ Append(m, x.fiber)[Len(q) + 1] = x.fiber
      /\ Append(m, x.fiber) = [i \in 1 .. (Len(q) + 1) |-> Append(m, x.fiber)[i]]
    BY <1>3
<1>5. \A i \in 1 .. (Len(q) + 1) : Append(m, x.fiber)[i] = Append(q, x)[i].fiber
    <2> TAKE i \in 1 .. (Len(q) + 1)
    <2>1. CASE i = Len(q) + 1
        BY <1>2, <1>4, <2>1
    <2>2. CASE i # Len(q) + 1
        <3>1. i \in 1 .. Len(q)
            BY <1>2, <2>2
        <3> QED BY <1>2, <1>4, <3>1
    <2> QED BY <2>1, <2>2
<1> QED BY <1>2, <1>4, <1>5

\* The mapping of the initial state.
LEMMA InitImplements == Init => Abstract!Init
<1> SUFFICES ASSUME Init PROVE Abstract!Init
    OBVIOUS
<1>1. MadeCapacity = [c \in Chan |-> -1]
    BY DEF Init, MadeCapacity, Made, Chan
<1>2. WaitingSenders = [c \in Chan |-> << >>]
    <2>1. \A c \in Chan : sendQueue[c] = << >>
        BY DEF Init
    <2>2. \A c \in Chan : [i \in DOMAIN sendQueue[c] |-> sendQueue[c][i].fiber] = << >>
        BY <2>1
    <2> QED BY <2>2 DEF WaitingSenders
<1> QED BY <1>1, <1>2 DEF Init, Abstract!Init, Abstract!NotMade

\* What a send, or a receive, on a made channel leaves alone.
LEMMA KeptByMapping ==
    /\ UNCHANGED sendQueue => UNCHANGED WaitingSenders
    /\ UNCHANGED <<nextChanId, capacity>> => UNCHANGED MadeCapacity
BY DEF WaitingSenders, MadeCapacity, Made

\* A step that leaves the channels alone stutters.
LEMMA QuietImplements == UNCHANGED chanVars => UNCHANGED Abstract!vars
BY KeptByMapping DEF chanVars, Abstract!vars

\* OpMakeChannel is Make.
LEMMA MakeImplements ==
    ASSUME TypeOK, OpMakeChannel
    PROVE  \E c \in Chan : Abstract!Make(c)
<1> DEFINE c == nextChanId + 1
<1>1. PICK cap \in Capacities : capacity' = [capacity EXCEPT ![c] = cap]
    BY DEF OpMakeChannel
<1>2. /\ nextChanId' = nextChanId + 1 /\ nextChanId \in Nat
      /\ UNCHANGED <<sendQueue, recvQueue, sent, asked>> /\ capacity \in [Chan -> Nat]
    BY DEF OpMakeChannel, TypeOK, ChanTypeOK
<1>3. c \in Chan /\ c \notin Made /\ c \in Made' /\ Made' = Made \cup {c}
    BY <1>2, ChanFacts DEF TypeOK, ChanTypeOK, OpMakeChannel, Made
<1>4. MadeCapacity[c] = -1
    BY <1>3 DEF MadeCapacity
<1>5. MadeCapacity' = [MadeCapacity EXCEPT ![c] = cap]
    BY <1>1, <1>2, <1>3 DEF MadeCapacity
<1>6. UNCHANGED WaitingSenders
    BY <1>2, KeptByMapping
<1> QED BY <1>2, <1>3, <1>4, <1>5, <1>6 DEF Abstract!Make, Abstract!NotMade

\* OpSend is Send.
LEMMA SendImplements ==
    ASSUME PlacementInv, NEW c \in Chan, OpSend(c)
    PROVE  Abstract!Send(c, current)
<1>0. DeliveryInv /\ TypeOK /\ sent \in [Chan -> Nat] /\ StartSend(c)
    BY DEF PlacementInv, DeliveryInv, TypeOK, ChanTypeOK, OpSend, SendHandoff, SendBuffer,
       SendBlock
<1>1. /\ c \in Made /\ UNCHANGED <<nextChanId, capacity, asked>>
      /\ sent' = [sent EXCEPT ![c] = @ + 1]
    BY <1>0 DEF StartSend
<1>2. /\ Contents(c) /\ Rendezvous(c)
      /\ capacity[c] \in Nat /\ count[c] \in Nat /\ sent[c] \in Nat /\ asked[c] \in Nat
      /\ recvQueue[c] \in Seq(Fiber) /\ sendQueue[c] \in Seq(SenderWait)
    BY <1>0, ChannelFacts
<1>3. MadeCapacity[c] = capacity[c] /\ MadeCapacity[c] # -1
    BY <1>1, <1>2 DEF MadeCapacity
<1>4. UNCHANGED MadeCapacity
    BY <1>1, KeptByMapping
<1>5. Len(recvQueue[c]) \in Nat /\ Len(sendQueue[c]) \in Nat
    BY <1>2
<1>6. sent[c] = asked[c] - Len(recvQueue[c]) + count[c] + Len(sendQueue[c])
    BY <1>2 DEF Contents, Delivered
<1>7. CASE SendHandoff(c)
    <2>1. recvQueue[c] # << >> /\ recvQueue' = [recvQueue EXCEPT ![c] = Tail(@)]
          /\ UNCHANGED sendQueue
        BY <1>7 DEF SendHandoff
    <2>2. Len(recvQueue[c]) > 0 /\ count[c] = 0 /\ Len(sendQueue[c]) = 0
        BY <1>2, <2>1, QueueFacts DEF Rendezvous
    <2>3. sent[c] < asked[c]
        BY <1>2, <1>5, <1>6, <2>2
    <2> QED BY <1>1, <1>3, <1>4, <2>1, <2>3, KeptByMapping DEF Abstract!Send, Abstract!NotMade
<1>8. CASE SendBuffer(c)
    <2>1. recvQueue[c] = << >> /\ count[c] < capacity[c] /\ UNCHANGED <<sendQueue, recvQueue>>
        BY <1>8 DEF SendBuffer, HasSpace
    <2>2. Len(recvQueue[c]) = 0 /\ Len(sendQueue[c]) = 0
        BY <1>2, <2>1 DEF Rendezvous
    <2>3. sent[c] - asked[c] \in 0 .. (capacity[c] - 1)
        BY <1>2, <1>6, <2>1, <2>2
    <2> QED BY <1>1, <1>3, <1>4, <2>1, <2>3, KeptByMapping DEF Abstract!Send, Abstract!NotMade
<1>9. CASE SendBlock(c)
    <2> DEFINE x == [fiber |-> current, value |-> sent[c] + 1]
    <2>1. /\ recvQueue[c] = << >> /\ ~(capacity[c] > 0 /\ count[c] < capacity[c])
          /\ sendQueue' = [sendQueue EXCEPT ![c] = Append(@, x)] /\ UNCHANGED recvQueue
        BY <1>9 DEF SendBlock, HasSpace
    <2>2. Len(recvQueue[c]) = 0 /\ count[c] = capacity[c]
        BY <1>2, <2>1 DEF Contents
    <2>3. sent[c] - asked[c] >= capacity[c]
        BY <1>2, <1>5, <1>6, <2>2
    <2>4. x \in SenderWait
        BY <1>0, <1>2 DEF SenderWait, TypeOK, FiberTypeOK
    <2>5. [i \in DOMAIN Append(sendQueue[c], x) |-> Append(sendQueue[c], x)[i].fiber]
            = Append(WaitingSenders[c], current)
        BY <1>2, <2>4, SendersAppend DEF WaitingSenders
    <2>6. WaitingSenders' = [WaitingSenders EXCEPT ![c] = Append(@, current)]
        BY <1>0, <2>1, <2>5 DEF WaitingSenders, TypeOK, ChanTypeOK
    <2> QED BY <1>1, <1>3, <1>4, <2>1, <2>3, <2>6 DEF Abstract!Send, Abstract!NotMade
<1> QED BY <1>7, <1>8, <1>9 DEF OpSend

\* OpReceive is Receive.
LEMMA ReceiveImplements ==
    ASSUME PlacementInv, NEW c \in Chan, OpReceive(c)
    PROVE  Abstract!Receive(c, current)
<1>0. DeliveryInv /\ TypeOK /\ asked \in [Chan -> Nat] /\ StartReceive(c)
    BY DEF PlacementInv, DeliveryInv, TypeOK, ChanTypeOK, OpReceive, ReceiveBuffer,
       ReceiveUnblock, TakeOldest, ReceiveRendezvous, ReceiveBlock
<1>1. /\ c \in Made /\ UNCHANGED <<nextChanId, capacity, sent>>
      /\ asked' = [asked EXCEPT ![c] = @ + 1]
    BY <1>0 DEF StartReceive
<1>2. /\ Contents(c) /\ Rendezvous(c)
      /\ capacity[c] \in Nat /\ count[c] \in Nat /\ sent[c] \in Nat /\ asked[c] \in Nat
      /\ recvQueue[c] \in Seq(Fiber) /\ sendQueue[c] \in Seq(SenderWait)
    BY <1>0, ChannelFacts
<1>3. MadeCapacity[c] = capacity[c] /\ MadeCapacity[c] # -1
    BY <1>1, <1>2 DEF MadeCapacity
<1>4. UNCHANGED MadeCapacity
    BY <1>1, KeptByMapping
<1>5. Len(recvQueue[c]) \in Nat /\ Len(sendQueue[c]) \in Nat
    BY <1>2
<1>6. sent[c] = asked[c] - Len(recvQueue[c]) + count[c] + Len(sendQueue[c])
    BY <1>2 DEF Contents, Delivered
<1>7. CASE ReceiveBuffer(c)
    <2>1. count[c] > 0 /\ sendQueue[c] = << >> /\ UNCHANGED <<sendQueue, recvQueue>>
        BY <1>7 DEF ReceiveBuffer, TakeOldest, HasData
    <2>2. Len(recvQueue[c]) = 0 /\ Len(sendQueue[c]) = 0
        BY <1>2, <2>1 DEF Rendezvous
    <2>3. count[c] <= capacity[c]
        BY <1>2 DEF Contents
    <2>4. sent[c] - asked[c] \in 1 .. capacity[c]
        BY <1>2, <1>6, <2>1, <2>2, <2>3
    <2> QED BY <1>1, <1>3, <1>4, <2>1, <2>4, KeptByMapping DEF Abstract!Receive, Abstract!NotMade
<1>8. CASE ReceiveUnblock(c) \/ ReceiveRendezvous(c)
    <2>1. /\ sendQueue[c] # << >> /\ sendQueue' = [sendQueue EXCEPT ![c] = Tail(@)]
          /\ UNCHANGED recvQueue
        BY <1>8 DEF ReceiveUnblock, ReceiveRendezvous
    <2>2. Len(recvQueue[c]) = 0 /\ count[c] = capacity[c] /\ Len(sendQueue[c]) > 0
        BY <1>2, <2>1, QueueFacts DEF Rendezvous
    <2>3. sent[c] - asked[c] > capacity[c]
        BY <1>2, <1>5, <1>6, <2>2
    <2>4. [i \in DOMAIN Tail(sendQueue[c]) |-> Tail(sendQueue[c])[i].fiber]
            = Tail(WaitingSenders[c])
        BY <1>2, <2>1, SendersTail DEF WaitingSenders
    <2>5. WaitingSenders' = [WaitingSenders EXCEPT ![c] = Tail(@)]
        BY <1>0, <2>1, <2>4 DEF WaitingSenders, TypeOK, ChanTypeOK
    <2> QED BY <1>1, <1>3, <1>4, <2>1, <2>3, <2>5 DEF Abstract!Receive, Abstract!NotMade
<1>9. CASE ReceiveBlock(c)
    <2>1. /\ ~(capacity[c] > 0 /\ count[c] > 0) /\ sendQueue[c] = << >>
          /\ recvQueue' = [recvQueue EXCEPT ![c] = Append(@, current)] /\ UNCHANGED sendQueue
        BY <1>9 DEF ReceiveBlock, HasData
    <2>2. Len(sendQueue[c]) = 0 /\ count[c] = 0
        BY <1>2, <2>1 DEF Contents
    <2>3. sent[c] <= asked[c]
        BY <1>2, <1>5, <1>6, <2>2
    <2> QED BY <1>1, <1>3, <1>4, <2>1, <2>3, KeptByMapping DEF Abstract!Receive, Abstract!NotMade
<1> QED BY <1>7, <1>8, <1>9 DEF OpReceive

(* The scheduler implements the abstract channels: OpMakeChannel is Make,  *)
(* OpSend is Send and OpReceive is Receive of ChannelSpec, and every other *)
(* step of the VM, of its run queue, rings, wakeups and fiber stacks, is   *)
(* invisible to a user of channels.  (send, receive, OpMakeChannel)        *)
THEOREM SchedulerImplementsChannels == Spec => ImplementsChannels
<1>1. Init => Abstract!Init
    BY InitImplements
<1>2. PlacementInv /\ [Next]_vars => [Abstract!Next]_(Abstract!vars)
    <2> SUFFICES ASSUME PlacementInv, [Next]_vars
                 PROVE  Abstract!Next \/ UNCHANGED Abstract!vars
        OBVIOUS
    <2>0. TypeOK /\ current \in Fiber
        BY DEF PlacementInv, DeliveryInv, TypeOK, FiberTypeOK
    <2>1. CASE UNCHANGED chanVars
        BY <2>1, QuietImplements
    <2>2. CASE OpMakeChannel
        BY <2>0, <2>2, MakeImplements DEF Abstract!Next
    <2>3. ASSUME NEW c \in Chan, OpSend(c) PROVE Abstract!Next
        BY <2>0, <2>3, SendImplements DEF Abstract!Next
    <2>4. ASSUME NEW c \in Chan, OpReceive(c) PROVE Abstract!Next
        BY <2>0, <2>4, ReceiveImplements DEF Abstract!Next
    <2> QED BY <2>1, <2>2, <2>3, <2>4, ChannelStep
<1> QED BY <1>1, <1>2, PlacementInvariant, PTL DEF Spec, ImplementsChannels, Abstract!Spec
================================================================================
