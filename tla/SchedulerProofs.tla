---------------------------- MODULE SchedulerProofs ----------------------------
(***************************************************************************)
(* Theorems about the fiber scheduler, for any number of fibers, channels, *)
(* operations and any buffer sizes.                                        *)
(***************************************************************************)
EXTENDS Scheduler, SequenceTheorems, FiniteSetTheorems, TLAPS

--------------------------------------------------------------------------------
(* Facts about the sets and the helpers.                                   *)

\* An index of a ring stays an index of the ring when it advances.
LEMMA AdvanceInRange ==
    ASSUME NEW cap \in Nat, cap > 0, NEW i \in Nat
    PROVE  Advance(i, cap) \in Nat /\ Advance(i, cap) < cap
BY DEF Advance

\* Fibers are numbered from one; there is a next number below the bound.
LEMMA FiberFacts ==
    /\ Main \in Fiber
    /\ Fiber \subseteq Nat
    /\ \A n \in 0 .. MaxFibers : n < MaxFibers => n + 1 \in Fiber
BY BoundsAssumption DEF Main, Fiber

\* So are channels.
LEMMA ChanFacts ==
    /\ Chan \subseteq Nat
    /\ \A n \in 0 .. MaxChans : n < MaxChans => n + 1 \in Chan
BY BoundsAssumption DEF Chan

\* enqueue keeps the types of what it changes.
LEMMA EnqueueType ==
    ASSUME FiberTypeOK, NEW f \in Fiber, Enqueue(f)
    PROVE  state' \in [Fiber -> FiberState] /\ runQueue' \in Seq(Fiber)
BY DEF FiberTypeOK, Enqueue, FiberState

\* So does enqueueing two fibers.
LEMMA EnqueueBothType ==
    ASSUME FiberTypeOK, NEW f \in Fiber, NEW g \in Fiber, EnqueueBoth(f, g)
    PROVE  state' \in [Fiber -> FiberState] /\ runQueue' \in Seq(Fiber)
BY DEF FiberTypeOK, EnqueueBoth, FiberState

\* pushToFiberStack keeps the type of the stacks.
LEMMA PushType ==
    ASSUME StackTypeOK, NEW f \in Fiber, NEW v \in Value, PushToFiberStack(f, v)
    PROVE  pushed' \in [Fiber -> Seq(Value)]
BY DEF StackTypeOK, PushToFiberStack

--------------------------------------------------------------------------------
(* Type correctness.                                                       *)

\* Initially every variable has its type.
LEMMA InitTypeOK == Init => TypeOK
<1> SUFFICES ASSUME Init PROVE TypeOK
    OBVIOUS
<1> USE BoundsAssumption, FiberFacts DEF Init
<1>1. FiberTypeOK
    BY DEF FiberTypeOK, FiberState, Location
<1>2. ChanTypeOK
    <2>1. buffer = [c \in Chan |-> buffer[c]]
        BY Zenon
    <2>2. \A c \in Chan : buffer[c] \in [0 .. (capacity[c] - 1) -> Nat]
        BY DEF NewBuffer
    <2>3. /\ sendQueue \in [Chan -> Seq(SenderWait)]
          /\ recvQueue \in [Chan -> Seq(Fiber)]
        OBVIOUS
    <2> QED BY <2>1, <2>2, <2>3 DEF ChanTypeOK
<1>3. IoTypeOK
    BY DEF IoTypeOK
<1>4. StackTypeOK
    BY DEF StackTypeOK, NoTicket, Ticket
<1> QED
    BY <1>1, <1>2, <1>3, <1>4 DEF TypeOK

\* What the start of a send or of a receive keeps.
LEMMA StartSendType ==
    ASSUME TypeOK, NEW c \in Chan, StartSend(c)
    PROVE  /\ sent' \in [Chan -> Nat] /\ waits' \in [Fiber -> Ticket]
           /\ current' \in Fiber /\ nfibers' \in 0 .. MaxFibers
           /\ returned' \subseteq Fiber /\ budget' \in Int /\ pc' \in Location
           /\ IoTypeOK'
<1> USE DEF TypeOK, StartSend
<1>1. sent' \in [Chan -> Nat]
    BY DEF ChanTypeOK
<1>2. waits' \in [Fiber -> Ticket]
    <2>1. SendTicket(c, sent[c] + 1) \in Ticket
        BY ChanFacts DEF ChanTypeOK, SendTicket, Ticket
    <2> QED BY <2>1 DEF StackTypeOK
<1>3. current' \in Fiber /\ nfibers' \in 0 .. MaxFibers /\ returned' \subseteq Fiber
    BY DEF FiberTypeOK
<1>4. budget' \in Int /\ pc' \in Location
    BY DEF FiberTypeOK, Instruction, Charged, Yields, Location
<1>5. IoTypeOK'
    BY DEF IoTypeOK, ioVars
<1> QED BY <1>1, <1>2, <1>3, <1>4, <1>5

\* The start of a receive keeps the types of what it changes.
LEMMA StartReceiveType ==
    ASSUME TypeOK, NEW c \in Chan, StartReceive(c)
    PROVE  /\ asked' \in [Chan -> Nat] /\ waits' \in [Fiber -> Ticket]
           /\ current' \in Fiber /\ nfibers' \in 0 .. MaxFibers
           /\ returned' \subseteq Fiber /\ budget' \in Int /\ pc' \in Location
           /\ IoTypeOK'
<1> USE DEF TypeOK, StartReceive
<1>1. asked' \in [Chan -> Nat]
    BY DEF ChanTypeOK
<1>2. waits' \in [Fiber -> Ticket]
    <2>1. RecvTicket(c, asked[c] + 1) \in Ticket
        BY ChanFacts DEF ChanTypeOK, RecvTicket, Ticket
    <2> QED BY <2>1 DEF StackTypeOK
<1>3. current' \in Fiber /\ nfibers' \in 0 .. MaxFibers /\ returned' \subseteq Fiber
    BY DEF FiberTypeOK
<1>4. budget' \in Int /\ pc' \in Location
    BY DEF FiberTypeOK, Instruction, Charged, Yields, Location
<1>5. IoTypeOK'
    BY DEF IoTypeOK, ioVars
<1> QED BY <1>1, <1>2, <1>3, <1>4, <1>5

\* Writing a value into the ring at tail, and advancing tail.
LEMMA RingWriteType ==
    ASSUME ChanTypeOK, NEW c \in Chan, NEW v \in Nat, capacity[c] > 0,
           buffer' = [buffer EXCEPT ![c][tail[c]] = v],
           tail' = [tail EXCEPT ![c] = Advance(@, capacity[c])],
           capacity' = capacity
    PROVE  /\ buffer' = [d \in Chan |-> buffer'[d]]
           /\ \A d \in Chan : buffer'[d] \in [0 .. (capacity'[d] - 1) -> Nat]
           /\ tail' \in [Chan -> Nat]
           /\ \A d \in Chan : capacity'[d] > 0 => tail'[d] < capacity'[d]
           /\ \A d \in Chan : d # c => tail'[d] = tail[d]
<1>1. capacity[c] \in Nat /\ tail[c] \in Nat
    BY DEF ChanTypeOK
<1>2. Advance(tail[c], capacity[c]) \in Nat /\ Advance(tail[c], capacity[c]) < capacity[c]
    BY <1>1, AdvanceInRange
<1>3. buffer' = [d \in Chan |-> buffer'[d]]
    BY DEF ChanTypeOK
<1>4. \A d \in Chan : buffer'[d] \in [0 .. (capacity'[d] - 1) -> Nat]
    BY DEF ChanTypeOK
<1>5. tail' \in [Chan -> Nat] /\ \A d \in Chan : capacity'[d] > 0 => tail'[d] < capacity'[d]
    BY <1>2 DEF ChanTypeOK
<1> QED
    BY <1>3, <1>4, <1>5 DEF ChanTypeOK

\* Reading the ring at head, and advancing head.
LEMMA RingReadType ==
    ASSUME ChanTypeOK, NEW c \in Chan, capacity[c] > 0,
           head' = [head EXCEPT ![c] = Advance(@, capacity[c])],
           capacity' = capacity
    PROVE  /\ buffer[c][head[c]] \in Nat
           /\ head' \in [Chan -> Nat]
           /\ \A d \in Chan : capacity'[d] > 0 => head'[d] < capacity'[d]
           /\ \A d \in Chan : d # c => head'[d] = head[d]
<1>1. capacity[c] \in Nat /\ head[c] \in Nat
    BY DEF ChanTypeOK
<1>2. Advance(head[c], capacity[c]) \in Nat /\ Advance(head[c], capacity[c]) < capacity[c]
    BY <1>1, AdvanceInRange
<1>3. buffer[c][head[c]] \in Nat
    BY <1>1 DEF ChanTypeOK
<1> QED
    BY <1>2, <1>3 DEF ChanTypeOK

\* Every step keeps the types.
LEMMA NextTypeOK == TypeOK /\ [Next]_vars => TypeOK'
<1> SUFFICES ASSUME TypeOK, [Next]_vars PROVE TypeOK'
    OBVIOUS
<1>0. FiberTypeOK /\ ChanTypeOK /\ IoTypeOK /\ StackTypeOK
    BY DEF TypeOK
<1>a. UNCHANGED chanVars => ChanTypeOK'
    BY <1>0 DEF ChanTypeOK, chanVars, Made
<1>b. UNCHANGED ioVars => IoTypeOK'
    BY <1>0 DEF IoTypeOK, ioVars
<1>c. UNCHANGED stackVars => StackTypeOK'
    BY <1>0 DEF StackTypeOK, stackVars
<1>d. UNCHANGED <<fiberVars, budget>> /\ pc' \in Location => FiberTypeOK'
    BY <1>0 DEF FiberTypeOK, fiberVars
<1> USE DEF TypeOK
<1>1. CASE UNCHANGED vars
    BY <1>1, <1>0, <1>a, <1>b, <1>c, <1>d DEF vars, FiberTypeOK
<1>2. ASSUME TakeWakeup, pc' \in Location PROVE TypeOK'
    <2>1. Head(pendingWakeups) \in Fiber /\ Tail(pendingWakeups) \in Seq(Fiber)
        BY <1>0, <1>2 DEF IoTypeOK, TakeWakeup
    <2>2. IoResult \in Value
        BY DEF IoResult, Value
    <2>3. FiberTypeOK'
        BY <1>0, <1>2, <2>1, EnqueueType DEF TakeWakeup, FiberTypeOK
    <2>4. IoTypeOK'
        BY <1>0, <1>2, <2>1 DEF TakeWakeup, IoTypeOK
    <2>5. StackTypeOK'
        BY <1>0, <1>2, <2>1, <2>2, PushType DEF TakeWakeup, StackTypeOK
    <2> QED BY <1>2, <1>a, <2>3, <2>4, <2>5 DEF TakeWakeup
<1>3. CASE DrainWakeups
    BY <1>3, <1>2, <1>0 DEF DrainWakeups, FiberTypeOK
<1>4. CASE WaitWakeup
    BY <1>4, <1>2 DEF WaitWakeup, Location
<1>5. CASE DrainDone \/ Idle \/ Exit
    BY <1>5, <1>0, <1>a, <1>b, <1>c, <1>d DEF DrainDone, Idle, Exit, Location
<1>6. CASE Dispatch
    <2>1. Head(runQueue) \in Fiber /\ Tail(runQueue) \in Seq(Fiber)
        BY <1>0, <1>6 DEF FiberTypeOK, Dispatch
    <2>2. FiberTypeOK'
        BY <1>0, <1>6, <2>1, QuantumAssumption DEF Dispatch, FiberTypeOK, FiberState, Location
    <2>3. StackTypeOK'
        BY <1>0, <1>6, <2>1 DEF Dispatch, StackTypeOK, NoTicket, Ticket
    <2> QED BY <1>6, <1>a, <1>b, <2>2, <2>3 DEF Dispatch
<1>7. CASE Requeue
    <2>1. FiberTypeOK'
        BY <1>0, <1>7, EnqueueType DEF Requeue, FiberTypeOK, Location
    <2> QED BY <1>7, <1>a, <1>b, <1>c, <2>1 DEF Requeue
<1>8. CASE Preempt \/ OpOther \/ RuntimeError \/ StartBuiltin
    <2>1. budget' \in Int
        BY <1>0, <1>8 DEF FiberTypeOK, Preempt, OpOther, RuntimeError, StartBuiltin, Instruction,
           Charged
    <2>2. pc' \in Location
        BY <1>0, <1>8 DEF FiberTypeOK, Preempt, OpOther, RuntimeError, StartBuiltin, Continues, Yields,
           Location
    <2>3. UNCHANGED <<fiberVars, chanVars, ioVars, stackVars>>
        BY <1>8 DEF Preempt, OpOther, RuntimeError, StartBuiltin
    <2> QED
        BY <1>0, <2>1, <2>2, <2>3, <1>a, <1>b, <1>c DEF FiberTypeOK, fiberVars
<1>9. CASE LoopExit
    <2>1. FiberTypeOK'
        BY <1>0, <1>9 DEF LoopExit, FiberTypeOK, FiberState, Yields, Location
    <2> QED BY <1>9, <1>a, <1>b, <1>c, <2>1 DEF LoopExit
<1>10. CASE OpSpawn
    <2>1. nfibers + 1 \in Fiber
        BY <1>0, <1>10, FiberFacts DEF OpSpawn, FiberTypeOK
    <2>2. FiberTypeOK'
        BY <1>0, <1>10, <2>1, EnqueueType, BoundsAssumption
        DEF OpSpawn, FiberTypeOK, Instruction, Charged, Continues
    <2> QED BY <1>10, <1>a, <1>b, <1>c, <2>2 DEF OpSpawn
<1>11. CASE OpReturn
    <2>1. FiberTypeOK'
        BY <1>0, <1>11 DEF OpReturn, FiberTypeOK, Instruction, Charged, Yields, Location
    <2> QED BY <1>11, <1>a, <1>b, <1>c, <2>1 DEF OpReturn
<1>12. CASE OpCallAsync
    <2>1. FiberTypeOK'
        BY <1>0, <1>12 DEF OpCallAsync, FiberTypeOK, FiberState, Instruction, Charged,
           Yields, Location
    <2>2. IoTypeOK'
        BY <1>0, <1>12 DEF OpCallAsync, IoTypeOK, FiberTypeOK
    <2>3. StackTypeOK'
        BY <1>0, <1>12 DEF OpCallAsync, StackTypeOK, FiberTypeOK, IoTicket, Ticket
    <2> QED BY <1>12, <1>a, <2>1, <2>2, <2>3 DEF OpCallAsync
<1>13. CASE OpMakeChannel
    <2>1. PICK cap \in Capacities :
            /\ capacity' = [capacity EXCEPT ![nextChanId + 1] = cap]
            /\ buffer' = [buffer EXCEPT ![nextChanId + 1] = NewBuffer(cap)]
        BY <1>13 DEF OpMakeChannel
    <2>2. cap \in Nat /\ NewBuffer(cap) \in [0 .. (cap - 1) -> Nat]
        BY CapacitiesAssumption DEF NewBuffer
    <2>3. nextChanId + 1 \in Chan \ Made
        BY <1>0, <1>13, ChanFacts DEF OpMakeChannel, ChanTypeOK, Made
    <2>4. FiberTypeOK'
        BY <1>0, <1>13 DEF OpMakeChannel, FiberTypeOK, fiberVars, Instruction, Charged, Continues
    <2>5. capacity' \in [Chan -> Nat]
        BY <1>0, <2>1, <2>2 DEF ChanTypeOK
    <2>6. buffer' = [c \in Chan |-> buffer'[c]]
        BY <1>0, <2>1 DEF ChanTypeOK
    <2>7. \A c \in Chan : buffer'[c] \in [0 .. (capacity'[c] - 1) -> Nat]
        BY <1>0, <2>1, <2>2, <2>3 DEF ChanTypeOK
    <2>8. nextChanId' \in 0 .. MaxChans
        BY <1>0, <1>13, BoundsAssumption DEF ChanTypeOK, OpMakeChannel
    <2>9. Chan \ Made' \subseteq Chan \ Made /\ nextChanId + 1 \in Made'
        BY <1>0, <1>13 DEF ChanTypeOK, OpMakeChannel, Made
    <2>10. \A c \in Chan \ Made' : capacity'[c] = 0 /\ head[c] = 0 /\ tail[c] = 0
        BY <1>0, <2>1, <2>9 DEF ChanTypeOK
    <2>11. \A c \in Chan : capacity'[c] > 0 => head[c] < capacity'[c] /\ tail[c] < capacity'[c]
        BY <1>0, <2>1, <2>2, <2>3 DEF ChanTypeOK
    <2>12. ChanTypeOK'
        BY <1>0, <1>13, <2>5, <2>6, <2>7, <2>8, <2>10, <2>11 DEF ChanTypeOK, OpMakeChannel
    <2> QED BY <1>13, <1>b, <1>c, <2>4, <2>12 DEF OpMakeChannel
<1>14. ASSUME NEW c \in Chan, OpSend(c) PROVE TypeOK'
    <2>0. /\ UNCHANGED <<nextChanId, capacity, head, asked>>
          /\ StartSend(c)
        BY <1>14 DEF OpSend, SendHandoff, SendBuffer, SendBlock, StartSend
    <2>1. CASE SendHandoff(c)
        <3>1. Head(recvQueue[c]) \in Fiber /\ Tail(recvQueue[c]) \in Seq(Fiber)
            BY <1>0, <2>1 DEF SendHandoff, ChanTypeOK
        <3>2. <<c, sent[c] + 1>> \in Value
            BY <1>0, ChanFacts DEF ChanTypeOK, Value
        <3>3. current \in Fiber
            BY <1>0 DEF FiberTypeOK
        <3>4. FiberTypeOK'
            BY <1>0, <2>0, <2>1, <3>1, <3>3, StartSendType, EnqueueBothType
            DEF SendHandoff, FiberTypeOK
        <3>5. ChanTypeOK'
            BY <1>0, <2>0, <2>1, <3>1, StartSendType DEF SendHandoff, ChanTypeOK, Made
        <3>6. StackTypeOK'
            BY <1>0, <2>0, <2>1, <3>1, <3>2, StartSendType, PushType DEF SendHandoff, StackTypeOK
        <3> QED BY <2>0, <3>4, <3>5, <3>6, StartSendType
    <2>2. CASE SendBuffer(c)
        <3>1. sent[c] + 1 \in Nat /\ current \in Fiber
            BY <1>0 DEF ChanTypeOK, FiberTypeOK
        <3>2. capacity[c] > 0
            BY <2>2 DEF SendBuffer, HasSpace
        <3>3. FiberTypeOK'
            BY <1>0, <2>0, <2>2, <3>1, StartSendType, EnqueueType DEF SendBuffer, FiberTypeOK
        <3>4. /\ buffer' = [d \in Chan |-> buffer'[d]]
              /\ \A d \in Chan : buffer'[d] \in [0 .. (capacity'[d] - 1) -> Nat]
              /\ tail' \in [Chan -> Nat]
              /\ \A d \in Chan : capacity'[d] > 0 => tail'[d] < capacity'[d]
              /\ \A d \in Chan : d # c => tail'[d] = tail[d]
            BY <1>0, <2>0, <2>2, <3>1, <3>2, RingWriteType DEF SendBuffer
        <3>5. count' \in [Chan -> Nat]
            BY <1>0, <2>2 DEF SendBuffer, ChanTypeOK
        <3>6. c \in Made
            BY <2>0 DEF StartSend
        <3>7. ChanTypeOK'
            BY <1>0, <2>0, <2>2, <3>4, <3>5, <3>6, StartSendType DEF SendBuffer, ChanTypeOK, Made
        <3>8. StackTypeOK'
            BY <1>0, <2>0, <2>2, StartSendType DEF SendBuffer, StackTypeOK
        <3> QED BY <2>0, <3>3, <3>7, <3>8, StartSendType
    <2>3. CASE SendBlock(c)
        <3>1. [fiber |-> current, value |-> sent[c] + 1] \in SenderWait
            BY <1>0 DEF SenderWait, ChanTypeOK, FiberTypeOK
        <3>2. sendQueue' \in [Chan -> Seq(SenderWait)]
            BY <1>0, <2>3, <3>1 DEF SendBlock, ChanTypeOK
        <3>3. FiberTypeOK'
            BY <1>0, <2>0, <2>3, StartSendType DEF SendBlock, FiberTypeOK, FiberState
        <3>4. ChanTypeOK'
            BY <1>0, <2>0, <2>3, <3>2, StartSendType DEF SendBlock, ChanTypeOK, Made
        <3>5. StackTypeOK'
            BY <1>0, <2>0, <2>3, StartSendType DEF SendBlock, StackTypeOK
        <3> QED BY <2>0, <3>3, <3>4, <3>5, StartSendType
    <2> QED BY <1>14, <2>1, <2>2, <2>3 DEF OpSend
<1>15. ASSUME NEW c \in Chan, OpReceive(c) PROVE TypeOK'
    <2>0. /\ UNCHANGED <<nextChanId, capacity, sent>>
          /\ StartReceive(c)
          /\ current \in Fiber
        BY <1>0, <1>15 DEF OpReceive, ReceiveBuffer, ReceiveUnblock, TakeOldest,
           ReceiveRendezvous, ReceiveBlock, StartReceive, FiberTypeOK
    <2>a. ASSUME sendQueue[c] # << >>
          PROVE  /\ Head(sendQueue[c]).fiber \in Fiber /\ Head(sendQueue[c]).value \in Nat
                 /\ Tail(sendQueue[c]) \in Seq(SenderWait)
        <3>1. sendQueue[c] \in Seq(SenderWait)
            BY <1>0 DEF ChanTypeOK
        <3>2. Head(sendQueue[c]) \in SenderWait /\ Tail(sendQueue[c]) \in Seq(SenderWait)
            BY <2>a, <3>1
        <3> QED BY <3>2 DEF SenderWait
    <2>b. ASSUME TakeOldest(c)
          PROVE  /\ capacity[c] > 0 /\ count[c] > 0 /\ c \in Made
                 /\ StackTypeOK'
                 /\ head' \in [Chan -> Nat]
                 /\ \A d \in Chan : capacity'[d] > 0 => head'[d] < capacity'[d]
                 /\ \A d \in Chan : d # c => head'[d] = head[d]
        <3>1. capacity[c] > 0 /\ count[c] > 0 /\ c \in Made
            BY <2>b DEF TakeOldest, HasData, StartReceive
        <3>2. /\ buffer[c][head[c]] \in Nat
              /\ head' \in [Chan -> Nat]
              /\ \A d \in Chan : capacity'[d] > 0 => head'[d] < capacity'[d]
              /\ \A d \in Chan : d # c => head'[d] = head[d]
            BY <1>0, <2>0, <2>b, <3>1, RingReadType DEF TakeOldest
        <3>3. <<c, buffer[c][head[c]]>> \in Value
            BY <3>2, ChanFacts DEF Value
        <3>4. StackTypeOK'
            BY <1>0, <2>0, <2>b, <3>3, StartReceiveType, PushType DEF TakeOldest, StackTypeOK
        <3> QED BY <3>1, <3>2, <3>4
    <2>1. CASE ReceiveBuffer(c)
        <3>1. TakeOldest(c)
            BY <2>1 DEF ReceiveBuffer
        <3>2. FiberTypeOK'
            BY <1>0, <2>0, <2>1, StartReceiveType, EnqueueType DEF ReceiveBuffer, FiberTypeOK
        <3>3. count' \in [Chan -> Nat]
            BY <1>0, <2>1, <2>b, <3>1 DEF ReceiveBuffer, ChanTypeOK
        <3>4. ChanTypeOK'
            BY <1>0, <2>0, <2>1, <2>b, <3>1, <3>3, StartReceiveType
            DEF ReceiveBuffer, ChanTypeOK, Made
        <3> QED BY <2>0, <2>b, <3>1, <3>2, <3>4, StartReceiveType
    <2>2. CASE ReceiveUnblock(c)
        <3>1. TakeOldest(c) /\ sendQueue[c] # << >>
            BY <2>2 DEF ReceiveUnblock
        <3>2. FiberTypeOK'
            BY <1>0, <2>0, <2>a, <2>2, <3>1, StartReceiveType, EnqueueBothType
            DEF ReceiveUnblock, FiberTypeOK
        <3>3. sendQueue' \in [Chan -> Seq(SenderWait)]
            BY <1>0, <2>a, <2>2, <3>1 DEF ReceiveUnblock, ChanTypeOK
        <3>4. /\ buffer' = [d \in Chan |-> buffer'[d]]
              /\ \A d \in Chan : buffer'[d] \in [0 .. (capacity'[d] - 1) -> Nat]
              /\ tail' \in [Chan -> Nat]
              /\ \A d \in Chan : capacity'[d] > 0 => tail'[d] < capacity'[d]
              /\ \A d \in Chan : d # c => tail'[d] = tail[d]
            BY <1>0, <2>0, <2>a, <2>b, <2>2, <3>1, RingWriteType DEF ReceiveUnblock
        <3>5. ChanTypeOK'
            BY <1>0, <2>0, <2>2, <2>b, <3>1, <3>3, <3>4, StartReceiveType
            DEF ReceiveUnblock, ChanTypeOK, Made
        <3> QED BY <2>0, <2>b, <3>1, <3>2, <3>5, StartReceiveType
    <2>3. CASE ReceiveRendezvous(c)
        <3>1. sendQueue[c] # << >>
            BY <2>3 DEF ReceiveRendezvous
        <3>2. FiberTypeOK'
            BY <1>0, <2>0, <2>a, <2>3, <3>1, StartReceiveType, EnqueueBothType
            DEF ReceiveRendezvous, FiberTypeOK
        <3>3. sendQueue' \in [Chan -> Seq(SenderWait)]
            BY <1>0, <2>a, <2>3, <3>1 DEF ReceiveRendezvous, ChanTypeOK
        <3>4. ChanTypeOK'
            BY <1>0, <2>0, <2>3, <3>3, StartReceiveType DEF ReceiveRendezvous, ChanTypeOK, Made
        <3>5. <<c, Head(sendQueue[c]).value>> \in Value
            BY <2>a, <3>1, ChanFacts DEF Value
        <3>6. StackTypeOK'
            BY <1>0, <2>0, <2>3, <3>5, StartReceiveType, PushType DEF ReceiveRendezvous, StackTypeOK
        <3> QED BY <2>0, <3>2, <3>4, <3>6, StartReceiveType
    <2>4. CASE ReceiveBlock(c)
        <3>1. recvQueue' \in [Chan -> Seq(Fiber)]
            BY <1>0, <2>0, <2>4 DEF ReceiveBlock, ChanTypeOK
        <3>2. FiberTypeOK'
            BY <1>0, <2>0, <2>4, StartReceiveType DEF ReceiveBlock, FiberTypeOK, FiberState
        <3>3. ChanTypeOK'
            BY <1>0, <2>0, <2>4, <3>1, StartReceiveType DEF ReceiveBlock, ChanTypeOK, Made
        <3>4. StackTypeOK'
            BY <1>0, <2>0, <2>4, StartReceiveType DEF ReceiveBlock, StackTypeOK
        <3> QED BY <2>0, <3>2, <3>3, <3>4, StartReceiveType
    <2> QED BY <1>15, <2>1, <2>2, <2>3, <2>4 DEF OpReceive
<1>16. ASSUME NEW f \in Fiber, IoDone(f) PROVE TypeOK'
    <2>1. IoTypeOK'
        BY <1>0, <1>16 DEF IoDone, IoTypeOK
    <2> QED BY <1>0, <1>16, <1>a, <1>c, <1>d, <2>1 DEF IoDone, FiberTypeOK
<1>17. CASE BuiltinReturns
    <2>1. FiberTypeOK'
        BY <1>0, <1>17 DEF BuiltinReturns, FiberTypeOK, fiberVars, Location
    <2> QED BY <1>17, <2>1, <1>a, <1>b, <1>c DEF BuiltinReturns
<1> QED
    BY <1>1, <1>3, <1>4, <1>5, <1>6, <1>7, <1>8, <1>9, <1>10, <1>11, <1>12, <1>13, <1>14,
       <1>15, <1>16, <1>17
    DEF Next, VMStep, RunStep, FiberStep, Finished

(* Type correctness of the scheduler, including that every index into a    *)
(* ring buffer stays inside the ring.                                      *)
THEOREM TypeCorrect == Spec => []TypeOK
BY InitTypeOK, NextTypeOK, PTL DEF Spec

--------------------------------------------------------------------------------
(* Ring arithmetic.                                                        *)

\* The remainder of what exceeds the divisor by less than the divisor.
LEMMA ModSmall ==
    ASSUME NEW n \in Nat, n > 0, NEW x \in Nat, x < 2 * n
    PROVE  x % n = IF x < n THEN x ELSE x - n
<1>1. CASE x < n
    BY <1>1
<1>2. CASE n <= x
    BY <1>2
<1> QED BY <1>1, <1>2

\* Slots counted from h, the slot of the oldest value, in a ring of size n.
Ring(n, h) ==
    /\ \A i \in 0 .. n : (h + i) % n \in 0 .. (n - 1)
    /\ \A i, j \in 0 .. (n - 1) : (h + i) % n = (h + j) % n => i = j
    /\ (h + 0) % n = h /\ (h + n) % n = h
    /\ \A i \in 0 .. (n - 1) : Advance((h + i) % n, n) = (h + (i + 1)) % n
    /\ \A i \in 0 .. (n - 1) : (Advance(h, n) + i) % n = (h + (i + 1)) % n
    /\ (Advance(h, n) + n) % n = Advance(h, n)

\* Every place of a ring of n slots.
LEMMA RingFacts ==
    ASSUME NEW n \in Nat, n > 0, NEW h \in Nat, h < n
    PROVE  Ring(n, h)
<1>1. \A x \in Nat : x < 2 * n => x % n = IF x < n THEN x ELSE x - n
    BY ModSmall
<1>2. \A i \in 0 .. n : (h + i) % n = IF h + i < n THEN h + i ELSE h + i - n
    BY <1>1
<1>3. Advance(h, n) = IF h + 1 < n THEN h + 1 ELSE 0
    BY <1>1 DEF Advance
<1>4. \A i \in 0 .. (n - 1) : Advance((h + i) % n, n) = (h + (i + 1)) % n
    <2> TAKE i \in 0 .. (n - 1)
    <2>1. i + 1 \in 0 .. n /\ i \in 0 .. n
        OBVIOUS
    <2>2. ((h + i) % n) + 1 \in Nat /\ ((h + i) % n) + 1 < 2 * n
        BY <1>2, <2>1
    <2>3. (((h + i) % n) + 1) % n =
            IF ((h + i) % n) + 1 < n THEN ((h + i) % n) + 1 ELSE ((h + i) % n) + 1 - n
        BY <1>1, <2>2
    <2> QED BY <1>2, <2>1, <2>3 DEF Advance
<1>5. \A i \in 0 .. (n - 1) : (Advance(h, n) + i) % n = (h + (i + 1)) % n
    <2> TAKE i \in 0 .. (n - 1)
    <2>1. i + 1 \in 0 .. n
        OBVIOUS
    <2>2. Advance(h, n) + i \in Nat /\ Advance(h, n) + i < 2 * n
        BY <1>3
    <2> QED BY <1>1, <1>2, <1>3, <2>1, <2>2
<1>6. (Advance(h, n) + n) % n = Advance(h, n)
    BY <1>1, <1>3
<1>7. \A i \in 0 .. n : (h + i) % n \in 0 .. (n - 1)
    BY <1>2
<1>8. \A i, j \in 0 .. (n - 1) : (h + i) % n = (h + j) % n => i = j
    BY <1>2
<1>9. (h + 0) % n = h /\ (h + n) % n = h
    BY <1>2
<1> QED BY <1>4, <1>5, <1>6, <1>7, <1>8, <1>9 DEF Ring

--------------------------------------------------------------------------------
(* What a step does not touch.                                             *)

\* Channel d is as before.
UnchangedAt(d) ==
    /\ capacity'[d] = capacity[d] /\ buffer'[d] = buffer[d]
    /\ head'[d] = head[d] /\ tail'[d] = tail[d] /\ count'[d] = count[d]
    /\ sendQueue'[d] = sendQueue[d] /\ recvQueue'[d] = recvQueue[d]
    /\ sent'[d] = sent[d] /\ asked'[d] = asked[d]

\* The operation fiber f is suspended in is as before.
StaysBlocked(f) == state'[f] = "Blocked" /\ waits'[f] = waits[f]

\* A channel that is as before keeps its contents and its waiters, provided
\* these stay suspended.
LEMMA KeepChannel ==
    ASSUME TypeOK, NEW d \in Chan, UnchangedAt(d),
           Contents(d), Rendezvous(d), BlockedSenders(d), BlockedReceivers(d),
           \A f \in Fiber : state[f] = "Blocked" /\ waits[f].chan = d => StaysBlocked(f)
    PROVE  /\ Contents(d)' /\ Rendezvous(d)'
           /\ BlockedSenders(d)' /\ BlockedReceivers(d)'
<1>1. Contents(d)'
    BY DEF Contents, UnchangedAt, Delivered, SlotOf
<1>2. Rendezvous(d)'
    BY DEF Rendezvous, UnchangedAt
<1>3. BlockedSenders(d)'
    <2> SUFFICES ASSUME NEW i \in DOMAIN sendQueue[d]
                 PROVE  /\ state'[sendQueue[d][i].fiber] = "Blocked"
                        /\ waits'[sendQueue[d][i].fiber] = waits[sendQueue[d][i].fiber]
        BY DEF BlockedSenders, UnchangedAt
    <2>1. sendQueue[d][i] \in SenderWait
        BY DEF TypeOK, ChanTypeOK
    <2>2. sendQueue[d][i].fiber \in Fiber
        BY <2>1 DEF SenderWait
    <2>3. waits[sendQueue[d][i].fiber] = SendTicket(d, sendQueue[d][i].value)
        BY DEF BlockedSenders
    <2>4. waits[sendQueue[d][i].fiber].chan = d
        BY <2>3 DEF SendTicket
    <2> QED BY <2>2, <2>4 DEF BlockedSenders, StaysBlocked
<1>4. BlockedReceivers(d)'
    <2> SUFFICES ASSUME NEW i \in DOMAIN recvQueue[d]
                 PROVE  /\ state'[recvQueue[d][i]] = "Blocked"
                        /\ waits'[recvQueue[d][i]] = waits[recvQueue[d][i]]
        BY DEF BlockedReceivers, UnchangedAt, Delivered
    <2>1. recvQueue[d][i] \in Fiber
        BY DEF TypeOK, ChanTypeOK
    <2>2. waits[recvQueue[d][i]] = RecvTicket(d, Delivered(d) + i)
        BY DEF BlockedReceivers
    <2>3. waits[recvQueue[d][i]].chan = d
        BY <2>2 DEF RecvTicket
    <2> QED BY <2>1, <2>3 DEF BlockedReceivers, StaysBlocked
<1> QED BY <1>1, <1>2, <1>3, <1>4

\* The same for the fibers that wait for I/O.
LEMMA KeepIo ==
    ASSUME TypeOK, BlockedOnIo, WakeupOnce, UNCHANGED ioVars,
           \A f \in Fiber : state[f] = "Blocked" /\ waits[f] = IoTicket => StaysBlocked(f)
    PROVE  BlockedOnIo' /\ WakeupOnce'
BY DEF TypeOK, IoTypeOK, BlockedOnIo, WakeupOnce, ioVars, StaysBlocked

\* A step that leaves all channels alone and wakes nobody waiting on one.
LEMMA KeepAllChannels ==
    ASSUME DeliveryInv, UNCHANGED chanVars,
           \A f \in Fiber : state[f] = "Blocked" /\ waits[f].chan # 0 => StaysBlocked(f)
    PROVE  /\ ChannelContents' /\ NoMissedRendezvous'
           /\ \A c \in Chan : BlockedSenders(c)' /\ BlockedReceivers(c)'
<1> SUFFICES ASSUME NEW c \in Chan
             PROVE  Contents(c)' /\ Rendezvous(c)' /\ BlockedSenders(c)' /\ BlockedReceivers(c)'
    BY DEF ChannelContents, NoMissedRendezvous
<1>1. UnchangedAt(c)
    BY DEF UnchangedAt, chanVars
<1>2. Contents(c) /\ Rendezvous(c) /\ BlockedSenders(c) /\ BlockedReceivers(c)
    BY DEF DeliveryInv, ChannelContents, NoMissedRendezvous, WaitersAreBlocked
<1>3. c # 0
    BY BoundsAssumption DEF Chan
<1> QED BY <1>1, <1>2, <1>3, KeepChannel DEF DeliveryInv

\* The run queue after enqueue of a fiber that was not ready.
LEMMA EnqueueOnce ==
    ASSUME TypeOK, RunQueueReady, NEW f \in Fiber, state[f] # "Ready", Enqueue(f)
    PROVE  /\ RunQueueReady' /\ state'[f] = "Ready"
           /\ \A g \in Fiber : g # f => state'[g] = state[g]
<1>1. state'[f] = "Ready" /\ \A g \in Fiber : g # f => state'[g] = state[g]
    BY DEF TypeOK, FiberTypeOK, Enqueue
<1>2. runQueue \in Seq(Fiber) /\ runQueue' = Append(runQueue, f)
    BY DEF TypeOK, FiberTypeOK, Enqueue
<1>3. \A i \in DOMAIN runQueue : runQueue[i] \in Fiber /\ runQueue[i] # f
    BY <1>2 DEF RunQueueReady
<1>4. /\ DOMAIN runQueue' = 1 .. (Len(runQueue) + 1) /\ DOMAIN runQueue = 1 .. Len(runQueue)
      /\ \A i \in 1 .. Len(runQueue) : runQueue'[i] = runQueue[i]
      /\ runQueue'[Len(runQueue) + 1] = f /\ Len(runQueue) \in Nat
    BY <1>2
<1>5. \A i \in DOMAIN runQueue' : state'[runQueue'[i]] = "Ready"
    BY <1>1, <1>3, <1>4 DEF RunQueueReady
<1>6. \A i, j \in DOMAIN runQueue' : runQueue'[i] = runQueue'[j] => i = j
    BY <1>3, <1>4 DEF RunQueueReady
<1> QED BY <1>1, <1>5, <1>6 DEF RunQueueReady

\* The same for two fibers.
LEMMA EnqueueBothOnce ==
    ASSUME TypeOK, RunQueueReady, NEW f \in Fiber, NEW g \in Fiber, f # g,
           state[f] # "Ready", state[g] # "Ready", EnqueueBoth(f, g)
    PROVE  /\ RunQueueReady' /\ state'[f] = "Ready" /\ state'[g] = "Ready"
           /\ \A h \in Fiber : h # f /\ h # g => state'[h] = state[h]
<1>1. /\ state'[f] = "Ready" /\ state'[g] = "Ready"
      /\ \A h \in Fiber : h # f /\ h # g => state'[h] = state[h]
    BY DEF TypeOK, FiberTypeOK, EnqueueBoth
<1>2. runQueue \in Seq(Fiber) /\ runQueue' = Append(Append(runQueue, f), g)
    BY DEF TypeOK, FiberTypeOK, EnqueueBoth
<1>3. \A i \in DOMAIN runQueue : runQueue[i] \in Fiber /\ runQueue[i] # f /\ runQueue[i] # g
    BY <1>2 DEF RunQueueReady
<1>4. /\ DOMAIN runQueue' = 1 .. (Len(runQueue) + 2) /\ DOMAIN runQueue = 1 .. Len(runQueue)
      /\ \A i \in 1 .. Len(runQueue) : runQueue'[i] = runQueue[i]
      /\ runQueue'[Len(runQueue) + 1] = f /\ runQueue'[Len(runQueue) + 2] = g
      /\ Len(runQueue) \in Nat
    BY <1>2
<1>5. \A i \in DOMAIN runQueue' : state'[runQueue'[i]] = "Ready"
    BY <1>1, <1>3, <1>4 DEF RunQueueReady
<1>6. \A i, j \in DOMAIN runQueue' : runQueue'[i] = runQueue'[j] => i = j
    BY <1>3, <1>4 DEF RunQueueReady
<1> QED BY <1>1, <1>5, <1>6 DEF RunQueueReady

\* The run queue is as before and its fibers stay ready.
LEMMA KeepRunQueue ==
    ASSUME TypeOK, RunQueueReady, UNCHANGED runQueue,
           \A f \in Fiber : state[f] = "Ready" => state'[f] = "Ready"
    PROVE  RunQueueReady'
BY DEF TypeOK, FiberTypeOK, RunQueueReady

\* pushToFiberStack changes one stack only.
LEMMA PushFacts ==
    ASSUME TypeOK, NEW f \in Fiber, NEW v \in Value, PushToFiberStack(f, v)
    PROVE  /\ pushed[f] = << >> => pushed'[f] = <<v>>
           /\ \A g \in Fiber : g # f => pushed'[g] = pushed[g]
<1>1. pushed'[f] = Append(pushed[f], v) /\ \A g \in Fiber : g # f => pushed'[g] = pushed[g]
    BY DEF TypeOK, StackTypeOK, PushToFiberStack
<1>2. Append(<< >>, v) = <<v>>
    OBVIOUS
<1> QED BY <1>1, <1>2, Zenon

\* While an instruction executes, the current fiber runs and it alone does.
LEMMA RunningFacts ==
    ASSUME DeliveryInv, InFiber
    PROVE  /\ current \in Fiber /\ state[current] = "Running"
           /\ pushed[current] = << >> /\ waits[current] = NoTicket
           /\ \A f \in Fiber : state[f] = "Running" => f = current
BY DEF DeliveryInv, TypeOK, FiberTypeOK, OneRunning, InFiber

--------------------------------------------------------------------------------
(* The delivery invariant is inductive: one lemma per group of actions.    *)

\* Initially nobody waits and nothing is buffered.
LEMMA InitDelivery == Init => DeliveryInv
<1> SUFFICES ASSUME Init PROVE DeliveryInv
    OBVIOUS
<1>0. TypeOK
    BY InitTypeOK
<1> USE BoundsAssumption, FiberFacts DEF Init
<1>1. ChannelContents
    BY DEF ChannelContents, Contents, Delivered
<1>2. NoMissedRendezvous
    BY DEF NoMissedRendezvous, Rendezvous
<1>3. WaitersAreBlocked
    BY DEF WaitersAreBlocked, BlockedOnIo, BlockedSenders, BlockedReceivers
<1>4. ResumeWithExpected
    BY DEF ResumeWithExpected, Resume, Expected, NoTicket
<1>5. RunQueueReady
    BY DEF RunQueueReady
<1>6. OneRunning /\ WakeupOnce
    BY DEF OneRunning, WakeupOnce
<1>7. Newborn
    BY DEF Newborn, Main, Fiber
<1> QED BY <1>0, <1>1, <1>2, <1>3, <1>4, <1>5, <1>6, <1>7 DEF DeliveryInv

\* Steps that change nothing the invariant is about but pc and budget.
LEMMA QuietDelivery ==
    ASSUME DeliveryInv, TypeOK', UNCHANGED <<state, runQueue, current, nfibers, chanVars, ioVars, stackVars>>,
           \/ pc' = pc
           \/ /\ pc \in {"fiber", "builtin"}
              /\ pc' \in {"fiber", "builtin", "yielded", "error"}
           \/ /\ pc \notin {"fiber", "builtin", "yielded", "error"}
              /\ pc' \notin {"fiber", "builtin"}
    PROVE  DeliveryInv'
<1> USE DEF DeliveryInv
<1>1. /\ ChannelContents' /\ NoMissedRendezvous'
      /\ \A c \in Chan : BlockedSenders(c)' /\ BlockedReceivers(c)'
    BY KeepAllChannels DEF StaysBlocked, stackVars
<1>2. BlockedOnIo' /\ WakeupOnce'
    BY KeepIo DEF StaysBlocked, stackVars, WaitersAreBlocked
<1>3. ResumeWithExpected'
    BY DEF ResumeWithExpected, Resume, stackVars
<1>4. RunQueueReady'
    BY KeepRunQueue
<1>5. OneRunning'
    BY DEF OneRunning, stackVars
<1>6. Newborn'
    BY DEF Newborn, stackVars, chanVars, Made
<1> QED BY <1>1, <1>2, <1>3, <1>4, <1>5, <1>6 DEF WaitersAreBlocked

\* A wakeup is taken: its fiber becomes ready with the result.
LEMMA WakeupDelivery ==
    ASSUME DeliveryInv, TypeOK', TakeWakeup,
           pc \notin {"fiber", "builtin", "yielded", "error"}, pc' \notin {"fiber", "builtin"}
    PROVE  DeliveryInv'
<1> DEFINE f == Head(pendingWakeups)
<1> USE DEF DeliveryInv
<1>1. /\ pendingWakeups \in Seq(Fiber) /\ pendingWakeups # << >>
      /\ pendingWakeups' = Tail(pendingWakeups) /\ UNCHANGED <<inflight, waits>>
    BY DEF TypeOK, IoTypeOK, TakeWakeup
<1>2. f \in Fiber /\ 1 \in DOMAIN pendingWakeups /\ f = pendingWakeups[1]
    BY <1>1
<1>3. state[f] = "Blocked" /\ waits[f] = IoTicket
    BY <1>2 DEF WaitersAreBlocked, BlockedOnIo
<1>4. pushed[f] = << >>
    BY <1>2, <1>3 DEF ResumeWithExpected, Resume
<1>5. Enqueue(f) /\ PushToFiberStack(f, IoResult) /\ IoResult \in Value
    BY DEF TakeWakeup, IoResult, Value
<1>6. /\ RunQueueReady' /\ state'[f] = "Ready"
      /\ \A g \in Fiber : g # f => state'[g] = state[g]
    BY <1>2, <1>3, <1>5, EnqueueOnce
<1>7. pushed'[f] = <<IoResult>> /\ \A g \in Fiber : g # f => pushed'[g] = pushed[g]
    BY <1>2, <1>4, <1>5, PushFacts
<1>8. \A g \in Fiber : state[g] = "Blocked" /\ g # f => StaysBlocked(g)
    BY <1>1, <1>6 DEF StaysBlocked
<1>9. waits[f].chan = 0
    BY <1>3 DEF IoTicket
<1>10. /\ ChannelContents' /\ NoMissedRendezvous'
       /\ \A c \in Chan : BlockedSenders(c)' /\ BlockedReceivers(c)'
    BY <1>8, <1>9, KeepAllChannels DEF TakeWakeup
<1>11. /\ \A i \in DOMAIN pendingWakeups' :
             i + 1 \in DOMAIN pendingWakeups /\ pendingWakeups'[i] = pendingWakeups[i + 1]
       /\ DOMAIN pendingWakeups' \subseteq Nat \ {0}
    BY <1>1
<1>12. BlockedOnIo'
    <2>1. \A g \in inflight' : state'[g] = "Blocked" /\ waits'[g] = IoTicket
        BY <1>1, <1>2, <1>8 DEF WaitersAreBlocked, BlockedOnIo, WakeupOnce, StaysBlocked,
           TypeOK, IoTypeOK
    <2>2. \A i \in DOMAIN pendingWakeups : i # 1 => pendingWakeups[i] # f
        BY <1>2 DEF WakeupOnce
    <2>3. \A i \in DOMAIN pendingWakeups' :
            state'[pendingWakeups'[i]] = "Blocked" /\ waits'[pendingWakeups'[i]] = IoTicket
        BY <1>1, <1>8, <1>11, <2>2 DEF WaitersAreBlocked, BlockedOnIo, StaysBlocked
    <2> QED BY <2>1, <2>3 DEF BlockedOnIo
<1>13. WakeupOnce'
    BY <1>1, <1>11 DEF WakeupOnce
<1>14. ResumeWithExpected'
    <2>1. Expected(IoTicket) = <<IoResult>>
        BY DEF Expected, IoTicket
    <2>2. ASSUME NEW g \in Fiber, g = f PROVE Resume(g)'
        BY <1>1, <1>3, <1>6, <1>7, <2>1, <2>2 DEF Resume
    <2>3. ASSUME NEW g \in Fiber, g # f PROVE Resume(g)'
        BY <1>1, <1>6, <1>7, <2>3 DEF ResumeWithExpected, Resume
    <2> QED BY <2>2, <2>3 DEF ResumeWithExpected
<1>15. OneRunning'
    BY <1>6 DEF OneRunning
<1>16. Newborn'
    BY <1>3, <1>6, <1>7 DEF Newborn, TakeWakeup, chanVars, Made
<1> QED BY <1>6, <1>10, <1>12, <1>13, <1>14, <1>15, <1>16 DEF WaitersAreBlocked

\* A ready fiber is dispatched.
LEMMA DispatchDelivery ==
    ASSUME DeliveryInv, TypeOK', Dispatch
    PROVE  DeliveryInv'
<1> DEFINE f == Head(runQueue)
<1> USE DEF DeliveryInv
<1>1. runQueue \in Seq(Fiber) /\ runQueue # << >> /\ runQueue' = Tail(runQueue)
    BY DEF TypeOK, FiberTypeOK, Dispatch
<1>2. f \in Fiber /\ 1 \in DOMAIN runQueue /\ f = runQueue[1]
    BY <1>1
<1>3. state[f] = "Ready"
    BY <1>2 DEF RunQueueReady
<1>4. /\ state'[f] = "Running" /\ pushed'[f] = << >> /\ waits'[f] = NoTicket /\ current' = f
      /\ \A g \in Fiber : g # f =>
            state'[g] = state[g] /\ pushed'[g] = pushed[g] /\ waits'[g] = waits[g]
    BY <1>2 DEF TypeOK, FiberTypeOK, StackTypeOK, Dispatch
<1>5. \A g \in Fiber : state[g] = "Blocked" => StaysBlocked(g)
    BY <1>3, <1>4 DEF StaysBlocked
<1>6. /\ ChannelContents' /\ NoMissedRendezvous'
      /\ \A c \in Chan : BlockedSenders(c)' /\ BlockedReceivers(c)'
    BY <1>5, KeepAllChannels DEF Dispatch
<1>7. BlockedOnIo' /\ WakeupOnce'
    BY <1>5, KeepIo DEF Dispatch, WaitersAreBlocked
<1>8. ResumeWithExpected'
    BY <1>4 DEF ResumeWithExpected, Resume
<1>9. RunQueueReady'
    <2>1. /\ \A i \in DOMAIN runQueue' :
               i + 1 \in DOMAIN runQueue /\ runQueue'[i] = runQueue[i + 1]
          /\ DOMAIN runQueue' \subseteq Nat \ {0}
        BY <1>1
    <2>2. \A i \in DOMAIN runQueue : runQueue[i] \in Fiber /\ (i # 1 => runQueue[i] # f)
        BY <1>1, <1>2 DEF RunQueueReady
    <2>3. \A i \in DOMAIN runQueue' : state'[runQueue'[i]] = "Ready"
        BY <1>4, <2>1, <2>2 DEF RunQueueReady
    <2>4. \A i, j \in DOMAIN runQueue' : runQueue'[i] = runQueue'[j] => i = j
        BY <2>1 DEF RunQueueReady
    <2> QED BY <2>3, <2>4 DEF RunQueueReady
<1>10. OneRunning'
    BY <1>4 DEF OneRunning, Dispatch
<1>11. Newborn'
    BY <1>3, <1>4 DEF Newborn, Dispatch, chanVars, Made
<1> QED BY <1>6, <1>7, <1>8, <1>9, <1>10, <1>11 DEF WaitersAreBlocked

\* Run puts a fiber that is still running back into the queue.
LEMMA RequeueDelivery ==
    ASSUME DeliveryInv, TypeOK', Requeue
    PROVE  DeliveryInv'
<1> USE DEF DeliveryInv
<1>0. current \in Fiber /\ UNCHANGED <<current, nfibers, stackVars, chanVars, ioVars>>
    BY DEF TypeOK, FiberTypeOK, Requeue
<1>1. /\ RunQueueReady'
      /\ state[current] = "Running" => state'[current] = "Ready"
      /\ state[current] # "Running" => state'[current] = state[current]
      /\ \A g \in Fiber : g # current => state'[g] = state[g]
    <2>1. CASE state[current] = "Running"
        BY <1>0, <2>1, EnqueueOnce DEF Requeue
    <2>2. CASE state[current] # "Running"
        BY <2>2, KeepRunQueue DEF Requeue
    <2> QED BY <2>1, <2>2
<1>2. \A g \in Fiber : state[g] = "Blocked" => StaysBlocked(g)
    BY <1>0, <1>1 DEF StaysBlocked, stackVars
<1>3. /\ ChannelContents' /\ NoMissedRendezvous'
      /\ \A c \in Chan : BlockedSenders(c)' /\ BlockedReceivers(c)'
    BY <1>0, <1>2, KeepAllChannels
<1>4. BlockedOnIo' /\ WakeupOnce'
    BY <1>0, <1>2, KeepIo DEF WaitersAreBlocked
<1>5. ResumeWithExpected'
    <2>1. state[current] = "Running" => pushed[current] = << >> /\ waits[current] = NoTicket
        BY <1>0 DEF OneRunning
    <2>2. Expected(NoTicket) = << >>
        BY DEF Expected, NoTicket
    <2> QED BY <1>0, <1>1, <2>1, <2>2 DEF ResumeWithExpected, Resume, stackVars
<1>6. OneRunning'
    BY <1>0, <1>1 DEF OneRunning, Requeue
<1>7. Newborn'
    BY <1>0, <1>1 DEF Newborn, stackVars, chanVars, Made
<1> QED BY <1>1, <1>3, <1>4, <1>5, <1>6, <1>7 DEF WaitersAreBlocked

\* The current fiber ends.
LEMMA LoopExitDelivery ==
    ASSUME DeliveryInv, TypeOK', LoopExit
    PROVE  DeliveryInv'
<1> USE DEF DeliveryInv
<1>0. current \in Fiber /\ state[current] = "Running"
    BY DEF TypeOK, FiberTypeOK, OneRunning, LoopExit
<1>1. /\ UNCHANGED <<runQueue, current, nfibers, chanVars, ioVars, stackVars>>
      /\ state'[current] = "Done" /\ \A g \in Fiber : g # current => state'[g] = state[g]
    BY <1>0 DEF TypeOK, FiberTypeOK, LoopExit
<1>2. \A g \in Fiber : state[g] = "Blocked" => StaysBlocked(g)
    BY <1>0, <1>1 DEF StaysBlocked, stackVars
<1>3. /\ ChannelContents' /\ NoMissedRendezvous'
      /\ \A c \in Chan : BlockedSenders(c)' /\ BlockedReceivers(c)'
    BY <1>1, <1>2, KeepAllChannels
<1>4. BlockedOnIo' /\ WakeupOnce'
    BY <1>1, <1>2, KeepIo DEF WaitersAreBlocked
<1>5. ResumeWithExpected'
    BY <1>1 DEF ResumeWithExpected, Resume, stackVars
<1>6. RunQueueReady'
    BY <1>0, <1>1, KeepRunQueue
<1>7. OneRunning'
    BY <1>1 DEF OneRunning, LoopExit, Yields, stackVars
<1>8. Newborn'
    BY <1>0, <1>1 DEF Newborn, stackVars, chanVars, Made
<1> QED BY <1>3, <1>4, <1>5, <1>6, <1>7, <1>8 DEF WaitersAreBlocked

\* A fiber is spawned.
LEMMA SpawnDelivery ==
    ASSUME DeliveryInv, TypeOK', OpSpawn
    PROVE  DeliveryInv'
<1> DEFINE f == nfibers + 1
<1> USE DEF DeliveryInv
<1>0. /\ nfibers \in Nat /\ f \in Fiber /\ f > nfibers
      /\ UNCHANGED <<current, pc, chanVars, ioVars, stackVars>> /\ nfibers' = f
    BY FiberFacts DEF TypeOK, FiberTypeOK, OpSpawn, Continues
<1>1. state[f] = "Unborn" /\ pushed[f] = << >> /\ waits[f] = NoTicket
    BY <1>0 DEF Newborn
<1>2. /\ RunQueueReady' /\ state'[f] = "Ready"
      /\ \A g \in Fiber : g # f => state'[g] = state[g]
    BY <1>0, <1>1, EnqueueOnce DEF OpSpawn
<1>3. \A g \in Fiber : state[g] = "Blocked" => StaysBlocked(g)
    BY <1>0, <1>1, <1>2 DEF StaysBlocked, stackVars
<1>4. /\ ChannelContents' /\ NoMissedRendezvous'
      /\ \A c \in Chan : BlockedSenders(c)' /\ BlockedReceivers(c)'
    BY <1>0, <1>3, KeepAllChannels
<1>5. BlockedOnIo' /\ WakeupOnce'
    BY <1>0, <1>3, KeepIo DEF WaitersAreBlocked
<1>6. ResumeWithExpected'
    <2>1. Expected(NoTicket) = << >>
        BY DEF Expected, NoTicket
    <2>2. ASSUME NEW g \in Fiber PROVE Resume(g)'
        BY <1>0, <1>1, <1>2, <2>1, <2>2 DEF ResumeWithExpected, Resume, stackVars
    <2> QED BY <2>2 DEF ResumeWithExpected
<1>7. OneRunning'
    BY <1>0, <1>1, <1>2 DEF OneRunning, stackVars, TypeOK, FiberTypeOK
<1>8. Newborn'
    BY <1>0, <1>2, FiberFacts DEF Newborn, stackVars, chanVars, Made
<1> QED BY <1>2, <1>4, <1>5, <1>6, <1>7, <1>8 DEF WaitersAreBlocked

\* A fiber starts an asynchronous builtin.
LEMMA CallAsyncDelivery ==
    ASSUME DeliveryInv, TypeOK', OpCallAsync
    PROVE  DeliveryInv'
<1> USE DEF DeliveryInv
<1>0. /\ current \in Fiber /\ state[current] = "Running"
      /\ pushed[current] = << >> /\ waits[current] = NoTicket
      /\ \A f \in Fiber : state[f] = "Running" => f = current
    BY RunningFacts DEF OpCallAsync, Instruction
<1>1. /\ UNCHANGED <<runQueue, current, nfibers, chanVars, pendingWakeups, pushed>>
      /\ inflight' = inflight \cup {current} /\ pc' = "yielded"
      /\ state'[current] = "Blocked" /\ waits'[current] = IoTicket
      /\ \A g \in Fiber : g # current => state'[g] = state[g] /\ waits'[g] = waits[g]
    BY <1>0 DEF TypeOK, FiberTypeOK, StackTypeOK, OpCallAsync, Yields
<1>2. \A g \in Fiber : state[g] = "Blocked" => StaysBlocked(g)
    BY <1>0, <1>1 DEF StaysBlocked
<1>3. /\ ChannelContents' /\ NoMissedRendezvous'
      /\ \A c \in Chan : BlockedSenders(c)' /\ BlockedReceivers(c)'
    BY <1>1, <1>2, KeepAllChannels
<1>4. BlockedOnIo' /\ WakeupOnce'
    <2>1. \A i \in DOMAIN pendingWakeups : pendingWakeups[i] \in Fiber
        BY DEF TypeOK, IoTypeOK
    <2>2. BlockedOnIo /\ WakeupOnce /\ inflight \subseteq Fiber
        BY DEF WaitersAreBlocked, TypeOK, IoTypeOK
    <2>3. BlockedOnIo'
        BY <1>1, <1>2, <2>1, <2>2 DEF BlockedOnIo, StaysBlocked
    <2>4. WakeupOnce'
        BY <1>0, <1>1, <2>1, <2>2 DEF BlockedOnIo, WakeupOnce
    <2> QED BY <2>3, <2>4
<1>5. ResumeWithExpected'
    BY <1>0, <1>1 DEF ResumeWithExpected, Resume
<1>6. RunQueueReady'
    BY <1>0, <1>1, KeepRunQueue
<1>7. OneRunning'
    BY <1>0, <1>1 DEF OneRunning
<1>8. Newborn'
    BY <1>0, <1>1 DEF Newborn, chanVars, Made
<1> QED BY <1>3, <1>4, <1>5, <1>6, <1>7, <1>8 DEF WaitersAreBlocked

\* A goroutine delivers.
LEMMA IoDoneDelivery ==
    ASSUME DeliveryInv, TypeOK', NEW f \in Fiber, IoDone(f)
    PROVE  DeliveryInv'
<1> USE DEF DeliveryInv
<1>1. /\ UNCHANGED <<state, runQueue, current, nfibers, pushed, waits, pc>>
      /\ UNCHANGED chanVars
    BY DEF IoDone, fiberVars, stackVars
<1>2. \A g \in Fiber : state[g] = "Blocked" => StaysBlocked(g)
    BY <1>1 DEF StaysBlocked
<1>3. /\ ChannelContents' /\ NoMissedRendezvous'
      /\ \A c \in Chan : BlockedSenders(c)' /\ BlockedReceivers(c)'
    BY <1>1, <1>2, KeepAllChannels
<1>4. /\ pendingWakeups \in Seq(Fiber) /\ pendingWakeups' = Append(pendingWakeups, f)
      /\ f \in inflight /\ inflight' = inflight \ {f}
    BY DEF TypeOK, IoTypeOK, IoDone
<1>5. /\ DOMAIN pendingWakeups' = 1 .. (Len(pendingWakeups) + 1)
      /\ DOMAIN pendingWakeups = 1 .. Len(pendingWakeups) /\ Len(pendingWakeups) \in Nat
      /\ \A i \in 1 .. Len(pendingWakeups) : pendingWakeups'[i] = pendingWakeups[i]
      /\ pendingWakeups'[Len(pendingWakeups) + 1] = f
    BY <1>4
<1>6. BlockedOnIo'
    BY <1>1, <1>4, <1>5 DEF WaitersAreBlocked, BlockedOnIo
<1>7. WakeupOnce'
    BY <1>4, <1>5 DEF WakeupOnce
<1>8. ResumeWithExpected'
    BY <1>1 DEF ResumeWithExpected, Resume
<1>9. RunQueueReady'
    BY <1>1, KeepRunQueue
<1>10. OneRunning'
    BY <1>1 DEF OneRunning
<1>11. Newborn'
    BY <1>1 DEF Newborn, chanVars, Made
<1> QED BY <1>3, <1>6, <1>7, <1>8, <1>9, <1>10, <1>11 DEF WaitersAreBlocked

\* A channel is made: it starts empty.
LEMMA MakeChannelDelivery ==
    ASSUME DeliveryInv, TypeOK', OpMakeChannel
    PROVE  DeliveryInv'
<1> DEFINE c == nextChanId + 1
<1> USE DEF DeliveryInv
<1>1. /\ UNCHANGED <<state, runQueue, current, nfibers, pushed, waits, pc>>
      /\ UNCHANGED <<head, tail, count, sendQueue, recvQueue, sent, asked, ioVars>>
      /\ nextChanId' = nextChanId + 1 /\ nextChanId \in 0 .. MaxChans /\ nextChanId < MaxChans
    BY DEF OpMakeChannel, fiberVars, stackVars, Continues, TypeOK, ChanTypeOK
<1>2. c \in Chan \ Made
    BY <1>1, ChanFacts DEF Made
<1>3. \A d \in Chan : d # c => UnchangedAt(d)
    BY <1>1, <1>2 DEF OpMakeChannel, UnchangedAt, TypeOK, ChanTypeOK
<1>4. \A g \in Fiber : state[g] = "Blocked" => StaysBlocked(g)
    BY <1>1 DEF StaysBlocked
<1>5. /\ count[c] = 0 /\ sent[c] = 0 /\ asked[c] = 0 /\ head[c] = 0 /\ tail[c] = 0
      /\ sendQueue[c] = << >> /\ recvQueue[c] = << >>
    BY <1>2 DEF Newborn, TypeOK, ChanTypeOK
<1>6. capacity' \in [Chan -> Nat]
    BY DEF TypeOK, ChanTypeOK
<1>7. ASSUME NEW d \in Chan
      PROVE  Contents(d)' /\ Rendezvous(d)' /\ BlockedSenders(d)' /\ BlockedReceivers(d)'
    <2>1. CASE d # c
        <3>1. Contents(d) /\ Rendezvous(d) /\ BlockedSenders(d) /\ BlockedReceivers(d)
            BY DEF ChannelContents, NoMissedRendezvous, WaitersAreBlocked
        <3> QED BY <1>3, <1>4, <2>1, <3>1, KeepChannel
    <2>2. CASE d = c
        <3>1. /\ count'[d] = 0 /\ sent'[d] = 0 /\ asked'[d] = 0 /\ head'[d] = 0 /\ tail'[d] = 0
              /\ sendQueue'[d] = << >> /\ recvQueue'[d] = << >> /\ capacity'[d] \in Nat
            BY <1>1, <1>5, <1>6, <2>2
        <3>2. capacity'[d] > 0 => (0 + 0) % capacity'[d] = 0
            BY <3>1
        <3>3. Contents(d)'
            BY <3>1, <3>2 DEF Contents, Delivered, SlotOf
        <3> QED BY <3>1, <3>3 DEF Rendezvous, BlockedSenders, BlockedReceivers
    <2> QED BY <2>1, <2>2
<1>8. BlockedOnIo' /\ WakeupOnce'
    BY <1>1, <1>4, KeepIo DEF WaitersAreBlocked
<1>9. ResumeWithExpected'
    BY <1>1 DEF ResumeWithExpected, Resume
<1>10. RunQueueReady'
    BY <1>1, KeepRunQueue
<1>11. OneRunning'
    BY <1>1 DEF OneRunning
<1>12. Newborn'
    <2>1. Chan \ Made' \subseteq Chan \ Made
        BY <1>1 DEF Made
    <2> QED BY <1>1, <2>1 DEF Newborn
<1> QED BY <1>7, <1>8, <1>9, <1>10, <1>11, <1>12
    DEF WaitersAreBlocked, ChannelContents, NoMissedRendezvous

--------------------------------------------------------------------------------
(* Sends and receives.                                                     *)

\* First element and rest of a queue.
LEMMA QueueFacts ==
    ASSUME NEW S, NEW q \in Seq(S), q # << >>
    PROVE  /\ Len(q) \in Nat /\ Len(q) > 0 /\ 1 \in DOMAIN q /\ q[1] \in S /\ Head(q) = q[1]
           /\ Tail(q) \in Seq(S) /\ Len(Tail(q)) = Len(q) - 1
           /\ \A i \in DOMAIN Tail(q) :
                i \in Nat /\ i >= 1 /\ i + 1 \in DOMAIN q /\ Tail(q)[i] = q[i + 1]
OBVIOUS

\* A send or receive by the current fiber on c, given what it does to c: the
\* other channels and the fibers waiting elsewhere are untouched.
LEMMA ChannelOp ==
    ASSUME DeliveryInv, TypeOK', NEW c \in Chan, c \in Made, InFiber, pc' = "yielded",
           UNCHANGED <<nextChanId, current, nfibers, ioVars>>,
           \A d \in Chan : d # c => UnchangedAt(d),
           Contents(c)', Rendezvous(c)', BlockedSenders(c)', BlockedReceivers(c)',
           RunQueueReady',
           state'[current] # "Running",
           \A f \in Fiber : Resume(f)',
           \A f \in Fiber : f # current /\ ~(state[f] = "Blocked" /\ waits[f].chan = c) =>
                state'[f] = state[f] /\ pushed'[f] = pushed[f] /\ waits'[f] = waits[f],
           \A f \in Fiber : f # current => state'[f] # "Running"
    PROVE  DeliveryInv'
<1> USE DEF DeliveryInv
<1>0. /\ current \in Fiber /\ state[current] = "Running"
      /\ \A f \in Fiber : state[f] = "Running" => f = current
    BY RunningFacts
<1>1. \A d \in Chan : d # c =>
        Contents(d)' /\ Rendezvous(d)' /\ BlockedSenders(d)' /\ BlockedReceivers(d)'
    <2> TAKE d \in Chan
    <2> HAVE d # c
    <2>1. Contents(d) /\ Rendezvous(d) /\ BlockedSenders(d) /\ BlockedReceivers(d)
        BY DEF ChannelContents, NoMissedRendezvous, WaitersAreBlocked
    <2>2. \A f \in Fiber : state[f] = "Blocked" /\ waits[f].chan = d => StaysBlocked(f)
        BY <1>0 DEF StaysBlocked
    <2> QED BY <2>1, <2>2, KeepChannel
<1>2. BlockedOnIo' /\ WakeupOnce'
    <2>1. c # 0
        BY BoundsAssumption DEF Chan
    <2>2. IoTicket.chan = 0
        BY DEF IoTicket
    <2>3. \A f \in Fiber : state[f] = "Blocked" /\ waits[f] = IoTicket => StaysBlocked(f)
        BY <1>0, <2>1, <2>2 DEF StaysBlocked
    <2> QED BY <2>3, KeepIo DEF WaitersAreBlocked
<1>3. OneRunning'
    BY DEF OneRunning
<1>4. Newborn'
    <2>1. \A f \in Fiber : f > nfibers => f # current /\ state[f] # "Blocked"
        BY <1>0 DEF Newborn
    <2>2. \A d \in Chan \ Made' : d # c /\ d \in Chan \ Made
        BY DEF Made
    <2> QED BY <2>1, <2>2 DEF Newborn, UnchangedAt
<1> QED BY <1>1, <1>2, <1>3, <1>4
    DEF WaitersAreBlocked, ChannelContents, NoMissedRendezvous, ResumeWithExpected

\* What the start of a send leaves alone, and the sender's new ticket.
LEMMA StartSendFacts ==
    ASSUME DeliveryInv, NEW c \in Chan, StartSend(c)
    PROVE  /\ InFiber /\ pc' = "yielded" /\ c \in Made
           /\ UNCHANGED <<nextChanId, current, nfibers, capacity, head, asked, ioVars>>
           /\ sent'[c] = sent[c] + 1 /\ sent[c] \in Nat
           /\ \A d \in Chan : d # c => sent'[d] = sent[d]
           /\ waits'[current] = SendTicket(c, sent[c] + 1)
           /\ \A f \in Fiber : f # current => waits'[f] = waits[f]
BY DEF DeliveryInv, TypeOK, FiberTypeOK, ChanTypeOK, StackTypeOK, StartSend, Instruction, Yields

\* What the start of a receive changes.
LEMMA StartReceiveFacts ==
    ASSUME DeliveryInv, NEW c \in Chan, StartReceive(c)
    PROVE  /\ InFiber /\ pc' = "yielded" /\ c \in Made
           /\ UNCHANGED <<nextChanId, current, nfibers, capacity, sent, ioVars>>
           /\ asked'[c] = asked[c] + 1 /\ asked[c] \in Nat
           /\ \A d \in Chan : d # c => asked'[d] = asked[d]
           /\ waits'[current] = RecvTicket(c, asked[c] + 1)
           /\ \A f \in Fiber : f # current => waits'[f] = waits[f]
BY DEF DeliveryInv, TypeOK, FiberTypeOK, ChanTypeOK, StackTypeOK, StartReceive, Instruction, Yields

\* The facts of the invariant about one channel.
LEMMA ChannelFacts ==
    ASSUME DeliveryInv, NEW c \in Chan
    PROVE  /\ Contents(c) /\ Rendezvous(c) /\ BlockedSenders(c) /\ BlockedReceivers(c)
           /\ capacity[c] \in Nat /\ count[c] \in Nat /\ head[c] \in Nat /\ tail[c] \in Nat
           /\ sent[c] \in Nat /\ asked[c] \in Nat
           /\ recvQueue[c] \in Seq(Fiber) /\ sendQueue[c] \in Seq(SenderWait)
           /\ buffer[c] \in [0 .. (capacity[c] - 1) -> Nat]
           /\ capacity[c] > 0 => head[c] < capacity[c] /\ tail[c] < capacity[c]
BY DEF DeliveryInv, ChannelContents, NoMissedRendezvous, WaitersAreBlocked, TypeOK, ChanTypeOK

\* What a fiber expects after a receive and after a send.
LEMMA ExpectedFacts ==
    /\ \A c, n : Expected(RecvTicket(c, n)) = <<<<c, n>>>>
    /\ \A c, n : Expected(SendTicket(c, n)) = << >>
    /\ Expected(NoTicket) = << >>
BY DEF Expected, RecvTicket, SendTicket, NoTicket

\* Tickets of different operations differ.
LEMMA TicketFacts ==
    /\ \A c, d, n, m : RecvTicket(c, n) = RecvTicket(d, m) => c = d /\ n = m
    /\ \A c, d, n, m : SendTicket(c, n) = SendTicket(d, m) => c = d /\ n = m
    /\ \A c, d, n, m : RecvTicket(c, n) # SendTicket(d, m)
    /\ \A c, n : RecvTicket(c, n).chan = c /\ SendTicket(c, n).chan = c
BY DEF RecvTicket, SendTicket

\* Case 1 of send.
LEMMA HandoffDelivery ==
    ASSUME DeliveryInv, TypeOK', NEW c \in Chan, SendHandoff(c)
    PROVE  DeliveryInv'
<1> DEFINE w == Head(recvQueue[c])
           D == asked[c] - Len(recvQueue[c])
<1>0. DeliveryInv /\ TypeOK /\ RunQueueReady
    BY DEF DeliveryInv
<1>1. /\ StartSend(c) /\ recvQueue[c] # << >>
      /\ recvQueue' = [recvQueue EXCEPT ![c] = Tail(@)]
      /\ PushToFiberStack(w, <<c, sent[c] + 1>>) /\ EnqueueBoth(w, current)
      /\ UNCHANGED <<buffer, tail, count, sendQueue>>
    BY DEF SendHandoff
<1>2. /\ InFiber /\ pc' = "yielded" /\ c \in Made
      /\ UNCHANGED <<nextChanId, current, nfibers, capacity, head, asked, ioVars>>
      /\ sent'[c] = sent[c] + 1 /\ sent[c] \in Nat
      /\ \A d \in Chan : d # c => sent'[d] = sent[d]
      /\ waits'[current] = SendTicket(c, sent[c] + 1)
      /\ \A f \in Fiber : f # current => waits'[f] = waits[f]
    BY <1>1, StartSendFacts
<1>3. /\ current \in Fiber /\ state[current] = "Running"
      /\ pushed[current] = << >>
      /\ \A f \in Fiber : state[f] = "Running" => f = current
    BY <1>2, RunningFacts
<1>4. /\ Contents(c) /\ Rendezvous(c) /\ BlockedSenders(c) /\ BlockedReceivers(c)
      /\ asked[c] \in Nat /\ recvQueue[c] \in Seq(Fiber) /\ capacity[c] \in Nat
    BY ChannelFacts
<1>5. /\ Len(recvQueue[c]) \in Nat /\ Len(recvQueue[c]) > 0 /\ 1 \in DOMAIN recvQueue[c]
      /\ recvQueue[c][1] \in Fiber /\ w = recvQueue[c][1]
      /\ Len(Tail(recvQueue[c])) = Len(recvQueue[c]) - 1
      /\ \A i \in DOMAIN Tail(recvQueue[c]) :
           i \in Nat /\ i >= 1 /\ i + 1 \in DOMAIN recvQueue[c]
             /\ Tail(recvQueue[c])[i] = recvQueue[c][i + 1]
    BY <1>1, <1>4, QueueFacts
<1>6. count[c] = 0 /\ sendQueue[c] = << >>
    BY <1>1, <1>4 DEF Rendezvous
<1>7. sent[c] = D /\ D \in Nat
    BY <1>2, <1>4, <1>6 DEF Contents, Delivered
<1>8. w \in Fiber /\ state[w] = "Blocked" /\ waits[w] = RecvTicket(c, D + 1) /\ w # current
    BY <1>3, <1>4, <1>5 DEF BlockedReceivers, Delivered
<1>9. pushed[w] = << >>
    BY <1>8 DEF DeliveryInv, ResumeWithExpected, Resume
<1>10. /\ RunQueueReady' /\ state'[w] = "Ready" /\ state'[current] = "Ready"
       /\ \A h \in Fiber : h # w /\ h # current => state'[h] = state[h]
    BY <1>0, <1>1, <1>3, <1>8, EnqueueBothOnce
<1>11. <<c, sent[c] + 1>> \in Value
    BY <1>2, ChanFacts DEF Value
<1>12. /\ pushed'[w] = <<<<c, sent[c] + 1>>>>
       /\ \A g \in Fiber : g # w => pushed'[g] = pushed[g]
    BY <1>0, <1>1, <1>8, <1>9, <1>11, PushFacts
<1>13. recvQueue'[c] = Tail(recvQueue[c]) /\ \A d \in Chan : d # c => recvQueue'[d] = recvQueue[d]
    BY <1>0, <1>1 DEF TypeOK, ChanTypeOK
<1>14. \A d \in Chan : d # c => UnchangedAt(d)
    BY <1>1, <1>2, <1>13 DEF UnchangedAt
<1>d. Delivered(c)' = D + 1
    <2>1. asked'[c] = asked[c] /\ Len(recvQueue'[c]) = Len(recvQueue[c]) - 1
        BY <1>2, <1>5, <1>13
    <2>2. asked[c] \in Nat /\ Len(recvQueue[c]) \in Nat
        BY <1>4, <1>5
    <2> QED BY <2>1, <2>2 DEF Delivered
<1>15. Contents(c)'
    <2>1. /\ count'[c] = 0 /\ sendQueue'[c] = << >>
          /\ sent'[c] = D + 1 /\ UNCHANGED <<capacity, head, tail>>
        BY <1>1, <1>2, <1>6, <1>7
    <2>2. capacity[c] > 0 => tail[c] = SlotOf(c, 0)
        BY <1>4, <1>6 DEF Contents
    <2> QED BY <1>4, <1>7, <1>d, <2>1, <2>2 DEF Contents, SlotOf
<1>16. Rendezvous(c)'
    BY <1>1, <1>6, <1>13 DEF Rendezvous
<1>17. BlockedSenders(c)'
    BY <1>1, <1>6 DEF BlockedSenders
<1>18. BlockedReceivers(c)'
    <2> SUFFICES ASSUME NEW i \in DOMAIN recvQueue'[c]
                 PROVE  /\ state'[recvQueue'[c][i]] = "Blocked"
                        /\ waits'[recvQueue'[c][i]] = RecvTicket(c, Delivered(c)' + i)
        BY DEF BlockedReceivers
    <2>1. /\ i \in Nat /\ i >= 1 /\ i + 1 \in DOMAIN recvQueue[c]
          /\ recvQueue'[c][i] = recvQueue[c][i + 1]
        BY <1>5, <1>13
    <2>2. /\ recvQueue[c][i + 1] \in Fiber /\ state[recvQueue[c][i + 1]] = "Blocked"
          /\ waits[recvQueue[c][i + 1]] = RecvTicket(c, D + (i + 1))
        BY <1>4, <2>1 DEF BlockedReceivers, Delivered
    <2>3. recvQueue[c][i + 1] # w /\ recvQueue[c][i + 1] # current
        <3>1. D + (i + 1) # D + 1
            BY <1>7, <2>1
        <3> QED BY <1>3, <1>8, <2>2, <3>1, TicketFacts
    <2>4. Delivered(c)' + i = D + (i + 1)
        BY <1>7, <1>d, <2>1
    <2> QED BY <1>2, <1>10, <2>1, <2>2, <2>3, <2>4
<1>19. ASSUME NEW f \in Fiber PROVE Resume(f)'
    <2>1. CASE f = w
        BY <1>2, <1>7, <1>8, <1>10, <1>12, <2>1, ExpectedFacts DEF Resume
    <2>2. CASE f = current
        BY <1>2, <1>3, <1>8, <1>10, <1>12, <2>2, ExpectedFacts DEF Resume
    <2>3. CASE f # w /\ f # current
        BY <1>2, <1>10, <1>12, <2>3 DEF Resume, DeliveryInv, ResumeWithExpected
    <2> QED BY <2>1, <2>2, <2>3
<1>20. waits[w].chan = c
    BY <1>8, TicketFacts
<1>21. \A f \in Fiber : f # current /\ ~(state[f] = "Blocked" /\ waits[f].chan = c) =>
        state'[f] = state[f] /\ pushed'[f] = pushed[f] /\ waits'[f] = waits[f]
    BY <1>2, <1>8, <1>10, <1>12, <1>20
<1>22. \A f \in Fiber : f # current => state'[f] # "Running"
    BY <1>3, <1>10
<1> QED
    BY <1>0, <1>2, <1>10, <1>14, <1>15, <1>16, <1>17, <1>18, <1>19, <1>21, <1>22, ChannelOp

\* Case 2 of send.
LEMMA SendBufferDelivery ==
    ASSUME DeliveryInv, TypeOK', NEW c \in Chan, SendBuffer(c)
    PROVE  DeliveryInv'
<1> DEFINE n == capacity[c]
           h == head[c]
<1>0. DeliveryInv /\ TypeOK /\ RunQueueReady
    BY DEF DeliveryInv
<1>1. /\ StartSend(c) /\ recvQueue[c] = << >> /\ n > 0 /\ count[c] < n
      /\ buffer' = [buffer EXCEPT ![c][tail[c]] = sent[c] + 1]
      /\ tail' = [tail EXCEPT ![c] = Advance(@, n)]
      /\ count' = [count EXCEPT ![c] = @ + 1]
      /\ Enqueue(current) /\ UNCHANGED <<sendQueue, recvQueue, pushed>>
    BY DEF SendBuffer, HasSpace
<1>2. /\ InFiber /\ pc' = "yielded" /\ c \in Made
      /\ UNCHANGED <<nextChanId, current, nfibers, capacity, head, asked, ioVars>>
      /\ sent'[c] = sent[c] + 1 /\ sent[c] \in Nat
      /\ \A d \in Chan : d # c => sent'[d] = sent[d]
      /\ waits'[current] = SendTicket(c, sent[c] + 1)
      /\ \A f \in Fiber : f # current => waits'[f] = waits[f]
    BY <1>1, StartSendFacts
<1>3. /\ current \in Fiber /\ state[current] = "Running"
      /\ pushed[current] = << >>
      /\ \A f \in Fiber : state[f] = "Running" => f = current
    BY <1>2, RunningFacts
<1>4. /\ Contents(c) /\ Rendezvous(c) /\ BlockedSenders(c) /\ BlockedReceivers(c)
      /\ capacity[c] \in Nat /\ count[c] \in Nat /\ head[c] \in Nat /\ tail[c] \in Nat
      /\ sent[c] \in Nat /\ asked[c] \in Nat
      /\ recvQueue[c] \in Seq(Fiber) /\ sendQueue[c] \in Seq(SenderWait)
      /\ buffer[c] \in [0 .. (capacity[c] - 1) -> Nat]
      /\ capacity[c] > 0 => head[c] < capacity[c] /\ tail[c] < capacity[c]
    BY ChannelFacts
<1>5. sendQueue[c] = << >>
    BY <1>1, <1>4 DEF Rendezvous
<1>6. /\ Delivered(c) = asked[c] /\ Delivered(c)' = asked[c]
      /\ sent[c] = asked[c] + count[c]
    <2>1. Len(recvQueue[c]) = 0 /\ Len(sendQueue[c]) = 0 /\ Len(recvQueue'[c]) = 0
          /\ asked'[c] = asked[c]
        BY <1>1, <1>2, <1>5
    <2> QED BY <1>4, <2>1 DEF Contents, Delivered
<1>7. /\ RunQueueReady' /\ state'[current] = "Ready"
      /\ \A g \in Fiber : g # current => state'[g] = state[g]
    BY <1>0, <1>1, <1>3, EnqueueOnce
<1>8. /\ \A d \in Chan : d # c =>
            buffer'[d] = buffer[d] /\ tail'[d] = tail[d] /\ count'[d] = count[d]
      /\ buffer'[c] = [buffer[c] EXCEPT ![tail[c]] = sent[c] + 1]
      /\ tail'[c] = Advance(tail[c], n) /\ count'[c] = count[c] + 1
    BY <1>0, <1>1 DEF TypeOK, ChanTypeOK
<1>9. \A d \in Chan : d # c => UnchangedAt(d)
    BY <1>1, <1>2, <1>8 DEF UnchangedAt
<1>10. Contents(c)'
    <2>0. /\ n \in Nat /\ n > 0 /\ h \in Nat /\ h < n
          /\ count[c] \in Nat /\ count[c] < n /\ count'[c] = count[c] + 1
          /\ asked[c] \in Nat /\ sent[c] \in Nat /\ sent[c] = asked[c] + count[c]
        BY <1>1, <1>4, <1>6, <1>8
    <2>r. Ring(n, h)
        BY <2>0, RingFacts
    <2>1. /\ \A i \in 0 .. n : (h + i) % n \in 0 .. (n - 1)
          /\ \A i, j \in 0 .. (n - 1) : (h + i) % n = (h + j) % n => i = j
          /\ \A i \in 0 .. (n - 1) : Advance((h + i) % n, n) = (h + (i + 1)) % n
        BY <2>r DEF Ring
    <2>2. tail[c] = (h + count[c]) % n /\ count[c] \in 0 .. (n - 1)
        BY <1>1, <1>4 DEF Contents, SlotOf
    <2>3. tail'[c] = (h + count'[c]) % n
        BY <1>8, <2>1, <2>2
    <2>4. ASSUME NEW i \in 0 .. (count'[c] - 1)
          PROVE  buffer'[c][(h + i) % n] = asked[c] + i + 1
        <3>1. i \in 0 .. (n - 1) /\ i \in 0 .. n
            BY <2>0, <2>4
        <3>2. CASE i = count[c]
            <4>1. (h + i) % n = tail[c] /\ tail[c] \in 0 .. (n - 1)
                BY <2>1, <2>2, <3>1, <3>2
            <4>2. buffer'[c][tail[c]] = sent[c] + 1
                BY <1>4, <1>8, <4>1
            <4>3. sent[c] + 1 = asked[c] + i + 1
                BY <2>0, <3>2
            <4> QED BY <4>1, <4>2, <4>3
        <3>3. CASE i # count[c]
            <4>1. i \in 0 .. (count[c] - 1)
                BY <1>4, <1>8, <2>4, <3>3
            <4>2. (h + i) % n # tail[c] /\ (h + i) % n \in 0 .. (n - 1)
                BY <2>1, <2>2, <3>1, <3>3
            <4>3. buffer[c][(h + i) % n] = asked[c] + i + 1
                BY <1>4, <1>6, <4>1 DEF Contents, SlotOf
            <4> QED BY <1>4, <1>8, <4>2, <4>3
        <3> QED BY <3>2, <3>3
    <2>5. /\ sent'[c] = asked[c] + count'[c] + Len(sendQueue'[c]) /\ count'[c] <= n
          /\ sendQueue'[c] = << >> /\ UNCHANGED <<capacity, head>>
        BY <1>1, <1>2, <1>4, <1>5, <1>6, <1>8
    <2> QED BY <1>4, <1>6, <2>3, <2>4, <2>5 DEF Contents, SlotOf
<1>11. Rendezvous(c)' /\ BlockedSenders(c)' /\ BlockedReceivers(c)'
    BY <1>1, <1>5 DEF Rendezvous, BlockedSenders, BlockedReceivers
<1>12. ASSUME NEW f \in Fiber PROVE Resume(f)'
    <2>1. CASE f = current
        BY <1>1, <1>2, <1>3, <1>7, <2>1, ExpectedFacts DEF Resume
    <2>2. CASE f # current
        BY <1>1, <1>2, <1>7, <2>2 DEF Resume, DeliveryInv, ResumeWithExpected
    <2> QED BY <2>1, <2>2
<1>13. \A f \in Fiber : f # current =>
        state'[f] = state[f] /\ pushed'[f] = pushed[f] /\ waits'[f] = waits[f]
    BY <1>1, <1>2, <1>7
<1>14. \A f \in Fiber : f # current => state'[f] # "Running"
    BY <1>3, <1>7
<1> QED
    BY <1>0, <1>2, <1>7, <1>9, <1>10, <1>11, <1>12, <1>13, <1>14, ChannelOp

\* Appending to a queue.
LEMMA AppendFacts ==
    ASSUME NEW S, NEW q \in Seq(S), NEW x \in S
    PROVE  /\ Len(q) \in Nat /\ DOMAIN q = 1 .. Len(q)
           /\ Len(Append(q, x)) = Len(q) + 1 /\ DOMAIN Append(q, x) = 1 .. (Len(q) + 1)
           /\ \A i \in 1 .. Len(q) : Append(q, x)[i] = q[i]
           /\ Append(q, x)[Len(q) + 1] = x
           /\ Append(q, x) # << >>
OBVIOUS

\* Case 3 of send.
LEMMA SendBlockDelivery ==
    ASSUME DeliveryInv, TypeOK', NEW c \in Chan, SendBlock(c)
    PROVE  DeliveryInv'
<1> DEFINE q == sendQueue[c]
           x == [fiber |-> current, value |-> sent[c] + 1]
<1>0. DeliveryInv /\ TypeOK /\ RunQueueReady
    BY DEF DeliveryInv
<1>1. /\ StartSend(c) /\ recvQueue[c] = << >> /\ ~(capacity[c] > 0 /\ count[c] < capacity[c])
      /\ state' = [state EXCEPT ![current] = "Blocked"]
      /\ sendQueue' = [sendQueue EXCEPT ![c] = Append(@, x)]
      /\ UNCHANGED <<runQueue, buffer, tail, count, recvQueue, pushed>>
    BY DEF SendBlock, HasSpace
<1>2. /\ InFiber /\ pc' = "yielded" /\ c \in Made
      /\ UNCHANGED <<nextChanId, current, nfibers, capacity, head, asked, ioVars>>
      /\ sent'[c] = sent[c] + 1 /\ sent[c] \in Nat
      /\ \A d \in Chan : d # c => sent'[d] = sent[d]
      /\ waits'[current] = SendTicket(c, sent[c] + 1)
      /\ \A f \in Fiber : f # current => waits'[f] = waits[f]
    BY <1>1, StartSendFacts
<1>3. /\ current \in Fiber /\ state[current] = "Running"
      /\ pushed[current] = << >>
      /\ \A f \in Fiber : state[f] = "Running" => f = current
    BY <1>2, RunningFacts
<1>4. /\ Contents(c) /\ Rendezvous(c) /\ BlockedSenders(c) /\ BlockedReceivers(c)
      /\ capacity[c] \in Nat /\ count[c] \in Nat /\ head[c] \in Nat /\ tail[c] \in Nat
      /\ sent[c] \in Nat /\ asked[c] \in Nat
      /\ recvQueue[c] \in Seq(Fiber) /\ sendQueue[c] \in Seq(SenderWait)
      /\ buffer[c] \in [0 .. (capacity[c] - 1) -> Nat]
      /\ capacity[c] > 0 => head[c] < capacity[c] /\ tail[c] < capacity[c]
    BY ChannelFacts
<1>5. x \in SenderWait
    BY <1>3, <1>4 DEF SenderWait
<1>6. /\ Len(q) \in Nat /\ DOMAIN q = 1 .. Len(q)
      /\ Len(Append(q, x)) = Len(q) + 1 /\ DOMAIN Append(q, x) = 1 .. (Len(q) + 1)
      /\ \A i \in 1 .. Len(q) : Append(q, x)[i] = q[i]
      /\ Append(q, x)[Len(q) + 1] = x
      /\ Append(q, x) # << >>
    BY <1>4, <1>5, AppendFacts, SMTT(40)
<1>7. sendQueue'[c] = Append(q, x) /\ \A d \in Chan : d # c => sendQueue'[d] = sendQueue[d]
    BY <1>0, <1>1 DEF TypeOK, ChanTypeOK
<1>8. count[c] = capacity[c]
    BY <1>1, <1>4 DEF Contents
<1>9. /\ Delivered(c) = asked[c] /\ Delivered(c)' = asked[c]
      /\ sent[c] = asked[c] + count[c] + Len(q)
    <2>1. Len(recvQueue[c]) = 0 /\ Len(recvQueue'[c]) = 0 /\ asked'[c] = asked[c]
        BY <1>1, <1>2
    <2> QED BY <1>4, <2>1 DEF Contents, Delivered
<1>n. /\ asked[c] \in Nat /\ count[c] \in Nat /\ Len(q) \in Nat /\ sent[c] \in Nat
      /\ sent[c] = asked[c] + count[c] + Len(q)
    BY <1>4, <1>6, <1>9
<1>10. state'[current] = "Blocked" /\ \A g \in Fiber : g # current => state'[g] = state[g]
    BY <1>0, <1>1, <1>3 DEF TypeOK, FiberTypeOK
<1>11. \A d \in Chan : d # c => UnchangedAt(d)
    BY <1>1, <1>2, <1>7 DEF UnchangedAt
<1>12. x.fiber = current /\ x.value = sent[c] + 1
    OBVIOUS
<1>13. Contents(c)'
    <2>1. \A i \in DOMAIN sendQueue'[c] : sendQueue'[c][i].value = asked[c] + count[c] + i
        <3> SUFFICES ASSUME NEW i \in 1 .. (Len(q) + 1)
                     PROVE  Append(q, x)[i].value = asked[c] + count[c] + i
            BY <1>6, <1>7
        <3>1. CASE i = Len(q) + 1
            <4>1. Append(q, x)[i].value = sent[c] + 1
                BY <1>6, <1>12, <3>1
            <4> QED BY <1>n, <4>1, <3>1
        <3>2. CASE i \in 1 .. Len(q)
            BY <1>4, <1>6, <1>9, <3>2 DEF Contents
        <3> QED BY <1>6, <3>1, <3>2
    <2>2. sent'[c] = asked[c] + count[c] + Len(sendQueue'[c])
        <3>1. sent'[c] = sent[c] + 1 /\ Len(sendQueue'[c]) = Len(q) + 1
            BY <1>2, <1>6, <1>7
        <3> QED BY <1>n, <3>1
    <2>3. /\ capacity[c] > 0 => tail[c] = SlotOf(c, count[c])
          /\ \A i \in 0 .. (count[c] - 1) : buffer[c][SlotOf(c, i)] = asked[c] + i + 1
        BY <1>4, <1>9 DEF Contents
    <2>4. UNCHANGED <<capacity, head, tail, count, buffer>>
        BY <1>1, <1>2
    <2> QED BY <1>4, <1>8, <1>9, <2>1, <2>2, <2>3, <2>4 DEF Contents, SlotOf
<1>14. Rendezvous(c)' /\ BlockedReceivers(c)'
    BY <1>1, <1>2, <1>6, <1>7, <1>8 DEF Rendezvous, BlockedReceivers
<1>15. BlockedSenders(c)'
    <2> SUFFICES ASSUME NEW i \in 1 .. (Len(q) + 1)
                 PROVE  /\ state'[Append(q, x)[i].fiber] = "Blocked"
                        /\ waits'[Append(q, x)[i].fiber] = SendTicket(c, Append(q, x)[i].value)
        BY <1>6, <1>7 DEF BlockedSenders
    <2>1. CASE i = Len(q) + 1
        BY <1>2, <1>6, <1>10, <1>12, <2>1
    <2>2. CASE i \in 1 .. Len(q)
        <3>1. q[i] \in SenderWait
            BY <1>4, <1>6, <2>2
        <3>2. q[i].fiber \in Fiber /\ Append(q, x)[i] = q[i]
            BY <1>6, <2>2, <3>1 DEF SenderWait
        <3>3. state[q[i].fiber] = "Blocked" /\ waits[q[i].fiber] = SendTicket(c, q[i].value)
            BY <1>4, <1>6, <2>2 DEF BlockedSenders
        <3> QED BY <1>2, <1>3, <1>10, <3>2, <3>3
    <2> QED BY <1>6, <2>1, <2>2
<1>16. ASSUME NEW f \in Fiber PROVE Resume(f)'
    BY <1>1, <1>2, <1>3, <1>10, <1>16 DEF Resume, DeliveryInv, ResumeWithExpected
<1>17. RunQueueReady'
    BY <1>0, <1>1, <1>3, <1>10, KeepRunQueue
<1>18. \A f \in Fiber : f # current =>
        state'[f] = state[f] /\ pushed'[f] = pushed[f] /\ waits'[f] = waits[f]
    BY <1>1, <1>2, <1>10
<1>19. \A f \in Fiber : f # current => state'[f] # "Running"
    BY <1>3, <1>10
<1> QED
    BY <1>0, <1>2, <1>10, <1>11, <1>13, <1>14, <1>15, <1>16, <1>17, <1>18, <1>19, ChannelOp

\* Case 3 of receive.
LEMMA ReceiveBlockDelivery ==
    ASSUME DeliveryInv, TypeOK', NEW c \in Chan, ReceiveBlock(c)
    PROVE  DeliveryInv'
<1> DEFINE q == recvQueue[c]
<1>0. DeliveryInv /\ TypeOK /\ RunQueueReady
    BY DEF DeliveryInv
<1>1. /\ StartReceive(c) /\ sendQueue[c] = << >> /\ ~(capacity[c] > 0 /\ count[c] > 0)
      /\ state' = [state EXCEPT ![current] = "Blocked"]
      /\ recvQueue' = [recvQueue EXCEPT ![c] = Append(@, current)]
      /\ UNCHANGED <<runQueue, buffer, head, tail, count, sendQueue, pushed>>
    BY DEF ReceiveBlock, HasData
<1>2. /\ InFiber /\ pc' = "yielded" /\ c \in Made
      /\ UNCHANGED <<nextChanId, current, nfibers, capacity, sent, ioVars>>
      /\ asked'[c] = asked[c] + 1 /\ asked[c] \in Nat
      /\ \A d \in Chan : d # c => asked'[d] = asked[d]
      /\ waits'[current] = RecvTicket(c, asked[c] + 1)
      /\ \A f \in Fiber : f # current => waits'[f] = waits[f]
    BY <1>1, StartReceiveFacts
<1>3. /\ current \in Fiber /\ state[current] = "Running"
      /\ pushed[current] = << >>
      /\ \A f \in Fiber : state[f] = "Running" => f = current
    BY <1>2, RunningFacts
<1>4. /\ Contents(c) /\ Rendezvous(c) /\ BlockedSenders(c) /\ BlockedReceivers(c)
      /\ capacity[c] \in Nat /\ count[c] \in Nat /\ head[c] \in Nat /\ tail[c] \in Nat
      /\ sent[c] \in Nat /\ asked[c] \in Nat
      /\ recvQueue[c] \in Seq(Fiber) /\ sendQueue[c] \in Seq(SenderWait)
      /\ buffer[c] \in [0 .. (capacity[c] - 1) -> Nat]
      /\ capacity[c] > 0 => head[c] < capacity[c] /\ tail[c] < capacity[c]
    BY ChannelFacts
<1>6. /\ Len(q) \in Nat /\ DOMAIN q = 1 .. Len(q)
      /\ Len(Append(q, current)) = Len(q) + 1 /\ DOMAIN Append(q, current) = 1 .. (Len(q) + 1)
      /\ \A i \in 1 .. Len(q) : Append(q, current)[i] = q[i]
      /\ Append(q, current)[Len(q) + 1] = current
      /\ Append(q, current) # << >>
    BY <1>3, <1>4, AppendFacts
<1>7. recvQueue'[c] = Append(q, current) /\ \A d \in Chan : d # c => recvQueue'[d] = recvQueue[d]
    BY <1>0, <1>1 DEF TypeOK, ChanTypeOK
<1>8. count[c] = 0
    BY <1>1, <1>4 DEF Contents
<1>9. /\ Delivered(c)' = Delivered(c) /\ Delivered(c) = asked[c] - Len(q)
      /\ Delivered(c) \in Nat
    <2>1. asked'[c] = asked[c] + 1 /\ Len(recvQueue'[c]) = Len(q) + 1
        BY <1>2, <1>6, <1>7
    <2>2. asked[c] \in Nat /\ Len(q) \in Nat /\ Delivered(c) >= 0
        BY <1>4, <1>6 DEF Contents
    <2> QED BY <2>1, <2>2 DEF Delivered
<1>10. state'[current] = "Blocked" /\ \A g \in Fiber : g # current => state'[g] = state[g]
    BY <1>0, <1>1, <1>3 DEF TypeOK, FiberTypeOK
<1>11. \A d \in Chan : d # c => UnchangedAt(d)
    BY <1>1, <1>2, <1>7 DEF UnchangedAt
<1>12. Contents(c)'
    <2>1. UNCHANGED <<capacity, head, tail, count, buffer, sent, sendQueue>>
        BY <1>1, <1>2
    <2> QED BY <1>4, <1>9, <2>1 DEF Contents, SlotOf
<1>13. Rendezvous(c)' /\ BlockedSenders(c)'
    BY <1>1, <1>2, <1>8 DEF Rendezvous, BlockedSenders
<1>14. BlockedReceivers(c)'
    <2> SUFFICES ASSUME NEW i \in 1 .. (Len(q) + 1)
                 PROVE  /\ state'[Append(q, current)[i]] = "Blocked"
                        /\ waits'[Append(q, current)[i]] = RecvTicket(c, Delivered(c) + i)
        BY <1>6, <1>7, <1>9 DEF BlockedReceivers
    <2>1. CASE i = Len(q) + 1
        <3>0. asked[c] \in Nat /\ Len(q) \in Nat /\ Delivered(c) = asked[c] - Len(q)
            BY <1>4, <1>6, <1>9
        <3>1. Delivered(c) + i = asked[c] + 1
            BY <3>0, <2>1
        <3> QED BY <1>2, <1>6, <1>10, <2>1, <3>1
    <2>2. CASE i \in 1 .. Len(q)
        <3>1. q[i] \in Fiber /\ Append(q, current)[i] = q[i]
            BY <1>4, <1>6, <2>2
        <3>2. state[q[i]] = "Blocked" /\ waits[q[i]] = RecvTicket(c, Delivered(c) + i)
            BY <1>4, <1>6, <2>2 DEF BlockedReceivers
        <3> QED BY <1>2, <1>3, <1>10, <3>1, <3>2
    <2> QED BY <1>6, <2>1, <2>2
<1>15. ASSUME NEW f \in Fiber PROVE Resume(f)'
    BY <1>1, <1>2, <1>3, <1>10, <1>15 DEF Resume, DeliveryInv, ResumeWithExpected
<1>16. RunQueueReady'
    BY <1>0, <1>1, <1>3, <1>10, KeepRunQueue
<1>17. \A f \in Fiber : f # current =>
        state'[f] = state[f] /\ pushed'[f] = pushed[f] /\ waits'[f] = waits[f]
    BY <1>1, <1>2, <1>10
<1>18. \A f \in Fiber : f # current => state'[f] # "Running"
    BY <1>3, <1>10
<1> QED
    BY <1>0, <1>2, <1>10, <1>11, <1>12, <1>13, <1>14, <1>15, <1>16, <1>17, <1>18, ChannelOp

\* Renumbering after one more delivery.
LEMMA Renumber ==
    ASSUME NEW a \in Nat, NEW k \in Nat, NEW i \in Nat
    PROVE  /\ a + (i + 1) + 1 = (a + 1) + i + 1
           /\ a + k + (i + 1) = (a + 1) + k + i
           /\ a + k + i = (a + 1) + k + (i - 1)
OBVIOUS

\* Case 1 of receive, nobody waiting for the space.
LEMMA ReceiveBufferDelivery ==
    ASSUME DeliveryInv, TypeOK', NEW c \in Chan, ReceiveBuffer(c)
    PROVE  DeliveryInv'
<1> DEFINE n == capacity[c]
           h == head[c]
<1>0. DeliveryInv /\ TypeOK /\ RunQueueReady
    BY DEF DeliveryInv
<1>1. /\ StartReceive(c) /\ n > 0 /\ count[c] > 0 /\ sendQueue[c] = << >>
      /\ head' = [head EXCEPT ![c] = Advance(@, n)]
      /\ PushToFiberStack(current, <<c, buffer[c][h]>>)
      /\ count' = [count EXCEPT ![c] = @ - 1]
      /\ Enqueue(current) /\ UNCHANGED <<buffer, tail, sendQueue, recvQueue>>
    BY DEF ReceiveBuffer, TakeOldest, HasData
<1>2. /\ InFiber /\ pc' = "yielded" /\ c \in Made
      /\ UNCHANGED <<nextChanId, current, nfibers, capacity, sent, ioVars>>
      /\ asked'[c] = asked[c] + 1 /\ asked[c] \in Nat
      /\ \A d \in Chan : d # c => asked'[d] = asked[d]
      /\ waits'[current] = RecvTicket(c, asked[c] + 1)
      /\ \A f \in Fiber : f # current => waits'[f] = waits[f]
    BY <1>1, StartReceiveFacts
<1>3. /\ current \in Fiber /\ state[current] = "Running"
      /\ pushed[current] = << >>
      /\ \A f \in Fiber : state[f] = "Running" => f = current
    BY <1>2, RunningFacts
<1>4. /\ Contents(c) /\ Rendezvous(c) /\ BlockedSenders(c) /\ BlockedReceivers(c)
      /\ capacity[c] \in Nat /\ count[c] \in Nat /\ head[c] \in Nat /\ tail[c] \in Nat
      /\ sent[c] \in Nat /\ asked[c] \in Nat
      /\ recvQueue[c] \in Seq(Fiber) /\ sendQueue[c] \in Seq(SenderWait)
      /\ buffer[c] \in [0 .. (capacity[c] - 1) -> Nat]
      /\ capacity[c] > 0 => head[c] < capacity[c] /\ tail[c] < capacity[c]
    BY ChannelFacts
<1>5. recvQueue[c] = << >>
    BY <1>1, <1>4 DEF Rendezvous
<1>a. asked[c] \in Nat /\ count[c] \in Nat
    BY <1>4
<1>6. Delivered(c) = asked[c] /\ Delivered(c)' = asked[c] + 1
    <2>1. Len(recvQueue[c]) = 0 /\ Len(recvQueue'[c]) = 0 /\ asked'[c] = asked[c] + 1
        BY <1>1, <1>2, <1>5
    <2> QED BY <1>2, <2>1 DEF Delivered
<1>7. /\ n \in Nat /\ n > 0 /\ h \in Nat /\ h < n
      /\ count[c] \in Nat /\ count[c] > 0 /\ count[c] <= n
      /\ asked[c] \in Nat /\ sent[c] \in Nat
      /\ sent[c] = asked[c] + count[c] + Len(sendQueue[c])
    BY <1>1, <1>4, <1>6 DEF Contents
<1>8. Ring(n, h)
    BY <1>7, RingFacts
<1>9. /\ tail[c] = (h + count[c]) % n
      /\ \A i \in 0 .. (count[c] - 1) : buffer[c][(h + i) % n] = asked[c] + i + 1
    BY <1>1, <1>4, <1>6 DEF Contents, SlotOf
<1>10. buffer[c][h] = asked[c] + 1
    <2>1. (h + 0) % n = h /\ 0 \in 0 .. (count[c] - 1)
        BY <1>7, <1>8 DEF Ring
    <2>2. buffer[c][(h + 0) % n] = asked[c] + 0 + 1
        BY <1>9, <2>1
    <2>3. asked[c] + 0 + 1 = asked[c] + 1
        BY <1>7
    <2> QED BY <2>1, <2>2, <2>3, Zenon
<1>11. /\ pushed'[current] = <<<<c, asked[c] + 1>>>>
       /\ \A g \in Fiber : g # current => pushed'[g] = pushed[g]
    <2>1. <<c, asked[c] + 1>> \in Value
        BY <1>7, ChanFacts DEF Value
    <2> QED BY <1>0, <1>1, <1>3, <1>10, <2>1, PushFacts
<1>12. /\ RunQueueReady' /\ state'[current] = "Ready"
       /\ \A g \in Fiber : g # current => state'[g] = state[g]
    BY <1>0, <1>1, <1>3, EnqueueOnce
<1>13. /\ \A d \in Chan : d # c => head'[d] = head[d] /\ count'[d] = count[d]
       /\ head'[c] = Advance(h, n) /\ count'[c] = count[c] - 1
    BY <1>0, <1>1 DEF TypeOK, ChanTypeOK
<1>14. \A d \in Chan : d # c => UnchangedAt(d)
    BY <1>1, <1>2, <1>13 DEF UnchangedAt
<1>15. Contents(c)'
    <2>1. \A i \in 0 .. (n - 1) : (head'[c] + i) % n = (h + (i + 1)) % n
        BY <1>8, <1>13 DEF Ring
    <2>2. tail'[c] = (head'[c] + count'[c]) % n
        <3>1. count'[c] \in 0 .. (n - 1) /\ count'[c] + 1 = count[c] /\ tail'[c] = tail[c]
            BY <1>1, <1>7, <1>13
        <3> QED BY <1>9, <2>1, <3>1
    <2>3. ASSUME NEW i \in 0 .. (count'[c] - 1)
          PROVE  buffer'[c][(head'[c] + i) % n] = Delivered(c)' + i + 1
        <3>1. i \in 0 .. (n - 1) /\ i + 1 \in 0 .. (count[c] - 1)
            BY <1>7, <1>13, <2>3
        <3>2. buffer'[c][(head'[c] + i) % n] = asked[c] + (i + 1) + 1
            BY <1>1, <1>9, <2>1, <3>1
        <3>3. asked[c] + (i + 1) + 1 = (asked[c] + 1) + i + 1
            BY <1>a, <3>1, Renumber
        <3> QED BY <1>6, <3>2, <3>3
    <2>4. /\ sent'[c] = Delivered(c)' + count'[c] + Len(sendQueue'[c]) /\ count'[c] <= n
          /\ sendQueue'[c] = << >> /\ UNCHANGED capacity
        <3>1. Len(sendQueue[c]) = 0 /\ sendQueue'[c] = << >> /\ Len(sendQueue'[c]) = 0
            BY <1>1
        <3> QED BY <1>2, <1>6, <1>7, <1>13, <3>1
    <2> QED BY <1>6, <1>7, <2>2, <2>3, <2>4 DEF Contents, SlotOf
<1>16. Rendezvous(c)' /\ BlockedSenders(c)' /\ BlockedReceivers(c)'
    BY <1>1, <1>5 DEF Rendezvous, BlockedSenders, BlockedReceivers
<1>17. ASSUME NEW f \in Fiber PROVE Resume(f)'
    <2>1. CASE f = current
        BY <1>2, <1>11, <1>12, <2>1, ExpectedFacts DEF Resume
    <2>2. CASE f # current
        BY <1>2, <1>11, <1>12, <2>2 DEF Resume, DeliveryInv, ResumeWithExpected
    <2> QED BY <2>1, <2>2
<1>18. \A f \in Fiber : f # current =>
        state'[f] = state[f] /\ pushed'[f] = pushed[f] /\ waits'[f] = waits[f]
    BY <1>2, <1>11, <1>12
<1>19. \A f \in Fiber : f # current => state'[f] # "Running"
    BY <1>3, <1>12
<1> QED
    BY <1>0, <1>2, <1>12, <1>14, <1>15, <1>16, <1>17, <1>18, <1>19, ChannelOp

\* The oldest waiting sender is woken together with the current fiber: what
\* remains of the send queue is still blocked.
LEMMA SenderWoken ==
    ASSUME DeliveryInv, NEW c \in Chan, sendQueue[c] # << >>, InFiber,
           EnqueueBoth(Head(sendQueue[c]).fiber, current),
           sendQueue' = [sendQueue EXCEPT ![c] = Tail(@)],
           \A f \in Fiber : f # current => waits'[f] = waits[f]
    PROVE  LET w == Head(sendQueue[c]).fiber IN
           /\ w \in Fiber /\ w # current /\ state[w] = "Blocked" /\ pushed[w] = << >>
           /\ waits[w] = SendTicket(c, Head(sendQueue[c]).value) /\ waits[w].chan = c
           /\ Head(sendQueue[c]).value = Delivered(c) + count[c] + 1
           /\ RunQueueReady' /\ state'[w] = "Ready" /\ state'[current] = "Ready"
           /\ \A f \in Fiber : f # w /\ f # current => state'[f] = state[f]
           /\ sendQueue'[c] = Tail(sendQueue[c])
           /\ \A d \in Chan : d # c => sendQueue'[d] = sendQueue[d]
           /\ Len(sendQueue[c]) \in Nat /\ Len(sendQueue'[c]) = Len(sendQueue[c]) - 1
           /\ \A i \in DOMAIN sendQueue'[c] :
                i \in Nat /\ i + 1 \in DOMAIN sendQueue[c] /\ sendQueue'[c][i] = sendQueue[c][i + 1]
           /\ BlockedSenders(c)'
<1> DEFINE w == Head(sendQueue[c]).fiber
           q == sendQueue[c]
<1>0. DeliveryInv /\ TypeOK /\ RunQueueReady
    BY DEF DeliveryInv
<1>1. /\ current \in Fiber /\ state[current] = "Running"
      /\ \A f \in Fiber : state[f] = "Running" => f = current
    BY RunningFacts
<1>2. /\ Contents(c) /\ BlockedSenders(c) /\ q \in Seq(SenderWait)
      /\ asked[c] \in Nat /\ count[c] \in Nat
    BY ChannelFacts
<1>3. /\ Len(q) \in Nat /\ 1 \in DOMAIN q /\ q[1] \in SenderWait /\ Head(q) = q[1]
      /\ Len(Tail(q)) = Len(q) - 1
      /\ \A i \in DOMAIN Tail(q) :
           i \in Nat /\ i >= 1 /\ i + 1 \in DOMAIN q /\ Tail(q)[i] = q[i + 1]
    BY <1>2, QueueFacts
<1>4. w \in Fiber /\ q[1].value \in Nat
    BY <1>3 DEF SenderWait
<1>5. state[w] = "Blocked" /\ waits[w] = SendTicket(c, q[1].value)
    BY <1>2, <1>3 DEF BlockedSenders
<1>6. w # current /\ pushed[w] = << >>
    BY <1>0, <1>1, <1>4, <1>5 DEF DeliveryInv, ResumeWithExpected, Resume
<1>7. waits[w].chan = c
    BY <1>5, TicketFacts
<1>8. q[1].value = Delivered(c) + count[c] + 1
    BY <1>2, <1>3 DEF Contents
<1>9. /\ RunQueueReady' /\ state'[w] = "Ready" /\ state'[current] = "Ready"
      /\ \A f \in Fiber : f # w /\ f # current => state'[f] = state[f]
    BY <1>0, <1>1, <1>4, <1>5, <1>6, EnqueueBothOnce
<1>10. sendQueue'[c] = Tail(q) /\ \A d \in Chan : d # c => sendQueue'[d] = sendQueue[d]
    BY <1>0 DEF TypeOK, ChanTypeOK
<1>11. BlockedSenders(c)'
    <2> SUFFICES ASSUME NEW i \in DOMAIN Tail(q)
                 PROVE  /\ state'[Tail(q)[i].fiber] = "Blocked"
                        /\ waits'[Tail(q)[i].fiber] = SendTicket(c, Tail(q)[i].value)
        BY <1>10 DEF BlockedSenders
    <2>1. i \in Nat /\ i >= 1 /\ i + 1 \in DOMAIN q /\ Tail(q)[i] = q[i + 1]
        BY <1>3
    <2>2. q[i + 1] \in SenderWait
        BY <1>2, <2>1
    <2>3. q[i + 1].fiber \in Fiber
        BY <2>2 DEF SenderWait
    <2>4. /\ state[q[i + 1].fiber] = "Blocked"
          /\ waits[q[i + 1].fiber] = SendTicket(c, q[i + 1].value)
        BY <1>2, <2>1 DEF BlockedSenders
    <2>5. q[i + 1].value # q[1].value
        <3>1. Delivered(c) \in Int
            <4>1. recvQueue[c] \in Seq(Fiber)
                BY ChannelFacts
            <4>2. Len(recvQueue[c]) \in Nat
                BY <4>1
            <4> QED BY <1>2, <4>2 DEF Delivered
        <3>2. q[i + 1].value = Delivered(c) + count[c] + (i + 1)
            BY <1>2, <2>1 DEF Contents
        <3>3. count[c] \in Nat
            BY <1>2
        <3> QED BY <1>8, <2>1, <3>1, <3>2, <3>3
    <2>6. q[i + 1].fiber # w /\ q[i + 1].fiber # current
        BY <1>1, <1>5, <2>4, <2>5, TicketFacts
    <2> QED BY <1>9, <2>1, <2>3, <2>4, <2>6
<1> QED
    BY <1>3, <1>4, <1>5, <1>6, <1>7, <1>8, <1>9, <1>10, <1>11

\* Case 1 of receive, the space goes to a waiting sender.
LEMMA ReceiveUnblockDelivery ==
    ASSUME DeliveryInv, TypeOK', NEW c \in Chan, ReceiveUnblock(c)
    PROVE  DeliveryInv'
<1> DEFINE n == capacity[c]
           h == head[c]
           w == Head(sendQueue[c]).fiber
           v == Head(sendQueue[c]).value
<1>0. DeliveryInv /\ TypeOK /\ RunQueueReady
    BY DEF DeliveryInv
<1>1. /\ StartReceive(c) /\ n > 0 /\ count[c] > 0 /\ sendQueue[c] # << >>
      /\ head' = [head EXCEPT ![c] = Advance(@, n)]
      /\ PushToFiberStack(current, <<c, buffer[c][h]>>)
      /\ sendQueue' = [sendQueue EXCEPT ![c] = Tail(@)]
      /\ buffer' = [buffer EXCEPT ![c][tail[c]] = v]
      /\ tail' = [tail EXCEPT ![c] = Advance(@, n)]
      /\ EnqueueBoth(w, current) /\ UNCHANGED <<count, recvQueue>>
    BY DEF ReceiveUnblock, TakeOldest, HasData
<1>2. /\ InFiber /\ pc' = "yielded" /\ c \in Made
      /\ UNCHANGED <<nextChanId, current, nfibers, capacity, sent, ioVars>>
      /\ asked'[c] = asked[c] + 1 /\ asked[c] \in Nat
      /\ \A d \in Chan : d # c => asked'[d] = asked[d]
      /\ waits'[current] = RecvTicket(c, asked[c] + 1)
      /\ \A f \in Fiber : f # current => waits'[f] = waits[f]
    BY <1>1, StartReceiveFacts
<1>3. /\ current \in Fiber /\ state[current] = "Running"
      /\ pushed[current] = << >>
      /\ \A f \in Fiber : state[f] = "Running" => f = current
    BY <1>2, RunningFacts
<1>4. /\ Contents(c) /\ Rendezvous(c) /\ BlockedSenders(c) /\ BlockedReceivers(c)
      /\ capacity[c] \in Nat /\ count[c] \in Nat /\ head[c] \in Nat /\ tail[c] \in Nat
      /\ sent[c] \in Nat /\ asked[c] \in Nat
      /\ recvQueue[c] \in Seq(Fiber) /\ sendQueue[c] \in Seq(SenderWait)
      /\ buffer[c] \in [0 .. (capacity[c] - 1) -> Nat]
      /\ capacity[c] > 0 => head[c] < capacity[c] /\ tail[c] < capacity[c]
    BY ChannelFacts
<1>5. recvQueue[c] = << >> /\ count[c] = n
    BY <1>1, <1>4 DEF Rendezvous
<1>a. asked[c] \in Nat /\ count[c] \in Nat
    BY <1>4
<1>6. Delivered(c) = asked[c] /\ Delivered(c)' = asked[c] + 1
    <2>1. Len(recvQueue[c]) = 0 /\ Len(recvQueue'[c]) = 0 /\ asked'[c] = asked[c] + 1
        BY <1>1, <1>2, <1>5
    <2> QED BY <1>2, <2>1 DEF Delivered
<1>7. /\ n \in Nat /\ n > 0 /\ h \in Nat /\ h < n
      /\ count[c] \in Nat /\ count[c] > 0 /\ count[c] <= n
      /\ asked[c] \in Nat /\ sent[c] \in Nat
      /\ sent[c] = asked[c] + count[c] + Len(sendQueue[c])
    BY <1>1, <1>4, <1>6 DEF Contents
<1>8. Ring(n, h)
    BY <1>7, RingFacts
<1>9. /\ tail[c] = (h + count[c]) % n
      /\ \A i \in 0 .. (count[c] - 1) : buffer[c][(h + i) % n] = asked[c] + i + 1
    BY <1>1, <1>4, <1>6 DEF Contents, SlotOf
<1>10. buffer[c][h] = asked[c] + 1
    <2>1. (h + 0) % n = h /\ 0 \in 0 .. (count[c] - 1)
        BY <1>7, <1>8 DEF Ring
    <2>2. buffer[c][(h + 0) % n] = asked[c] + 0 + 1
        BY <1>9, <2>1
    <2>3. asked[c] + 0 + 1 = asked[c] + 1
        BY <1>7
    <2> QED BY <2>1, <2>2, <2>3, Zenon
<1>11. /\ pushed'[current] = <<<<c, asked[c] + 1>>>>
       /\ \A g \in Fiber : g # current => pushed'[g] = pushed[g]
    <2>1. <<c, asked[c] + 1>> \in Value
        BY <1>7, ChanFacts DEF Value
    <2> QED BY <1>0, <1>1, <1>3, <1>10, <2>1, PushFacts
<1>w. /\ w \in Fiber /\ w # current /\ state[w] = "Blocked" /\ pushed[w] = << >>
      /\ waits[w] = SendTicket(c, v) /\ waits[w].chan = c
      /\ v = Delivered(c) + count[c] + 1
      /\ RunQueueReady' /\ state'[w] = "Ready" /\ state'[current] = "Ready"
      /\ \A f \in Fiber : f # w /\ f # current => state'[f] = state[f]
      /\ sendQueue'[c] = Tail(sendQueue[c])
      /\ \A d \in Chan : d # c => sendQueue'[d] = sendQueue[d]
      /\ Len(sendQueue[c]) \in Nat /\ Len(sendQueue'[c]) = Len(sendQueue[c]) - 1
      /\ \A i \in DOMAIN sendQueue'[c] :
           i \in Nat /\ i + 1 \in DOMAIN sendQueue[c] /\ sendQueue'[c][i] = sendQueue[c][i + 1]
      /\ BlockedSenders(c)'
    BY <1>1, <1>2, SenderWoken
<1>12. tail[c] = h /\ v = asked[c] + n + 1
    BY <1>5, <1>6, <1>8, <1>9, <1>w DEF Ring
<1>13. /\ \A d \in Chan : d # c =>
             head'[d] = head[d] /\ tail'[d] = tail[d] /\ buffer'[d] = buffer[d]
       /\ head'[c] = Advance(h, n) /\ tail'[c] = Advance(h, n)
       /\ buffer'[c] = [buffer[c] EXCEPT ![h] = v]
    BY <1>0, <1>1, <1>12 DEF TypeOK, ChanTypeOK
<1>14. \A d \in Chan : d # c => UnchangedAt(d)
    BY <1>1, <1>2, <1>13, <1>w DEF UnchangedAt
<1>15. Contents(c)'
    <2>1. \A i \in 0 .. (n - 1) : (head'[c] + i) % n = (h + (i + 1)) % n
        BY <1>8, <1>13 DEF Ring
    <2>2. tail'[c] = (head'[c] + count'[c]) % n
        BY <1>1, <1>5, <1>8, <1>13 DEF Ring
    <2>3. ASSUME NEW i \in 0 .. (count'[c] - 1)
          PROVE  buffer'[c][(head'[c] + i) % n] = Delivered(c)' + i + 1
        <3>1. i \in 0 .. (n - 1) /\ i + 1 \in 0 .. n
            BY <1>1, <1>5, <1>7, <2>3, SMTT(40)
        <3>2. CASE i = n - 1
            <4>1. (head'[c] + i) % n = h
                <5>1. i + 1 = n
                    BY <1>7, <3>2
                <5>2. (h + n) % n = h
                    BY <1>8 DEF Ring
                <5> QED BY <2>1, <3>1, <5>1, <5>2
            <4>2. buffer'[c][h] = v
                BY <1>4, <1>7, <1>13
            <4>3. v = (asked[c] + 1) + i + 1
                <5>1. PICK z \in Nat, b \in Nat : z = n /\ b = asked[c]
                    BY <1>7, Zenon
                <5>2. i = z - 1 /\ v = b + z + 1
                    BY <5>1, <1>12, <3>2, Zenon
                <5>3. v = (b + 1) + i + 1
                    <6> HIDE DEF n
                    <6> QED BY ONLY <5>2, z \in Nat, b \in Nat
                <5> QED BY <5>1, <5>3, Zenon
            <4> QED BY <1>6, <4>1, <4>2, <4>3
        <3>3. CASE i # n - 1
            <4>1. i + 1 \in 0 .. (n - 1) /\ i + 1 # 0 /\ 0 \in 0 .. (n - 1)
                BY <1>7, <3>1, <3>3, SMTT(40)
            <4>2. (h + (i + 1)) % n # h /\ (h + (i + 1)) % n \in 0 .. (n - 1)
                BY <1>8, <3>1, <4>1 DEF Ring
            <4>3. buffer'[c][(h + (i + 1)) % n] = buffer[c][(h + (i + 1)) % n]
                BY <1>4, <1>13, <4>2
            <4>4. buffer[c][(h + (i + 1)) % n] = asked[c] + (i + 1) + 1
                BY <1>5, <1>9, <4>1
            <4>5. asked[c] + (i + 1) + 1 = (asked[c] + 1) + i + 1
                BY <1>a, <3>1, Renumber
            <4> QED BY <1>6, <2>1, <3>1, <4>3, <4>4, <4>5
        <3> QED BY <3>2, <3>3
    <2>4. ASSUME NEW i \in DOMAIN sendQueue'[c]
          PROVE  sendQueue'[c][i].value = Delivered(c)' + count'[c] + i
        <3>1. /\ i \in Nat /\ i + 1 \in DOMAIN sendQueue[c]
              /\ sendQueue'[c][i] = sendQueue[c][i + 1]
            BY <1>w
        <3>2. sendQueue[c][i + 1].value = asked[c] + count[c] + (i + 1)
            BY <1>4, <1>6, <3>1 DEF Contents
        <3>3. asked[c] + count[c] + (i + 1) = (asked[c] + 1) + count[c] + i
            BY <1>a, <3>1, Renumber
        <3> QED BY <1>1, <1>6, <3>1, <3>2, <3>3
    <2>5. sent'[c] = Delivered(c)' + count'[c] + Len(sendQueue'[c])
        <3>1. Len(sendQueue[c]) \in Nat /\ Len(sendQueue'[c]) = Len(sendQueue[c]) - 1
            BY <1>w
        <3>2. sent[c] = asked[c] + count[c] + Len(sendQueue[c])
            BY <1>7
        <3>3. sent'[c] = sent[c] /\ count'[c] = count[c]
            BY <1>1, <1>2
        <3>4. sent[c] = (asked[c] + 1) + count[c] + (Len(sendQueue[c]) - 1)
            BY <1>a, <3>1, <3>2, Renumber
        <3> QED BY <1>6, <3>1, <3>3, <3>4
    <2> QED BY <1>1, <1>2, <1>6, <1>7, <2>2, <2>3, <2>4, <2>5, SMTT(40) DEF Contents, SlotOf
<1>16. Rendezvous(c)' /\ BlockedSenders(c)' /\ BlockedReceivers(c)'
    BY <1>1, <1>2, <1>5, <1>w DEF Rendezvous, BlockedReceivers
<1>17. ASSUME NEW f \in Fiber PROVE Resume(f)'
    <2>1. CASE f = current
        BY <1>2, <1>11, <1>w, <2>1, ExpectedFacts, SMTT(40) DEF Resume
    <2>2. CASE f = w
        BY <1>2, <1>11, <1>w, <2>2, ExpectedFacts DEF Resume
    <2>3. CASE f # current /\ f # w
        BY <1>2, <1>11, <1>w, <2>3 DEF Resume, DeliveryInv, ResumeWithExpected
    <2> QED BY <2>1, <2>2, <2>3
<1>18. \A f \in Fiber : f # current /\ ~(state[f] = "Blocked" /\ waits[f].chan = c) =>
        state'[f] = state[f] /\ pushed'[f] = pushed[f] /\ waits'[f] = waits[f]
    BY <1>2, <1>11, <1>w
<1>19. \A f \in Fiber : f # current => state'[f] # "Running"
    BY <1>3, <1>w
<1> QED
    BY <1>0, <1>2, <1>w, <1>14, <1>15, <1>16, <1>17, <1>18, <1>19, ChannelOp

\* Case 2 of receive.
LEMMA RendezvousDelivery ==
    ASSUME DeliveryInv, TypeOK', NEW c \in Chan, ReceiveRendezvous(c)
    PROVE  DeliveryInv'
<1> DEFINE w == Head(sendQueue[c]).fiber
           v == Head(sendQueue[c]).value
<1>0. DeliveryInv /\ TypeOK /\ RunQueueReady
    BY DEF DeliveryInv
<1>1. /\ StartReceive(c) /\ ~(capacity[c] > 0 /\ count[c] > 0) /\ sendQueue[c] # << >>
      /\ sendQueue' = [sendQueue EXCEPT ![c] = Tail(@)]
      /\ PushToFiberStack(current, <<c, v>>)
      /\ EnqueueBoth(w, current) /\ UNCHANGED <<buffer, head, tail, count, recvQueue>>
    BY DEF ReceiveRendezvous, HasData
<1>2. /\ InFiber /\ pc' = "yielded" /\ c \in Made
      /\ UNCHANGED <<nextChanId, current, nfibers, capacity, sent, ioVars>>
      /\ asked'[c] = asked[c] + 1 /\ asked[c] \in Nat
      /\ \A d \in Chan : d # c => asked'[d] = asked[d]
      /\ waits'[current] = RecvTicket(c, asked[c] + 1)
      /\ \A f \in Fiber : f # current => waits'[f] = waits[f]
    BY <1>1, StartReceiveFacts
<1>3. /\ current \in Fiber /\ state[current] = "Running"
      /\ pushed[current] = << >>
      /\ \A f \in Fiber : state[f] = "Running" => f = current
    BY <1>2, RunningFacts
<1>4. /\ Contents(c) /\ Rendezvous(c) /\ BlockedSenders(c) /\ BlockedReceivers(c)
      /\ capacity[c] \in Nat /\ count[c] \in Nat /\ head[c] \in Nat /\ tail[c] \in Nat
      /\ sent[c] \in Nat /\ asked[c] \in Nat
      /\ recvQueue[c] \in Seq(Fiber) /\ sendQueue[c] \in Seq(SenderWait)
      /\ buffer[c] \in [0 .. (capacity[c] - 1) -> Nat]
      /\ capacity[c] > 0 => head[c] < capacity[c] /\ tail[c] < capacity[c]
    BY ChannelFacts
<1>5. recvQueue[c] = << >> /\ count[c] = 0 /\ capacity[c] = 0
    BY <1>1, <1>4 DEF Rendezvous
<1>a. asked[c] \in Nat /\ count[c] \in Nat
    BY <1>4
<1>6. Delivered(c) = asked[c] /\ Delivered(c)' = asked[c] + 1
    <2>1. Len(recvQueue[c]) = 0 /\ Len(recvQueue'[c]) = 0 /\ asked'[c] = asked[c] + 1
        BY <1>1, <1>2, <1>5
    <2> QED BY <1>2, <2>1 DEF Delivered
<1>w. /\ w \in Fiber /\ w # current /\ state[w] = "Blocked" /\ pushed[w] = << >>
      /\ waits[w] = SendTicket(c, v) /\ waits[w].chan = c
      /\ v = Delivered(c) + count[c] + 1
      /\ RunQueueReady' /\ state'[w] = "Ready" /\ state'[current] = "Ready"
      /\ \A f \in Fiber : f # w /\ f # current => state'[f] = state[f]
      /\ sendQueue'[c] = Tail(sendQueue[c])
      /\ \A d \in Chan : d # c => sendQueue'[d] = sendQueue[d]
      /\ Len(sendQueue[c]) \in Nat /\ Len(sendQueue'[c]) = Len(sendQueue[c]) - 1
      /\ \A i \in DOMAIN sendQueue'[c] :
           i \in Nat /\ i + 1 \in DOMAIN sendQueue[c] /\ sendQueue'[c][i] = sendQueue[c][i + 1]
      /\ BlockedSenders(c)'
    BY <1>1, <1>2, SenderWoken
<1>10. v = asked[c] + 1
    BY <1>2, <1>5, <1>6, <1>w
<1>11. /\ pushed'[current] = <<<<c, asked[c] + 1>>>>
       /\ \A g \in Fiber : g # current => pushed'[g] = pushed[g]
    <2>1. <<c, asked[c] + 1>> \in Value
        BY <1>2, ChanFacts DEF Value
    <2> QED BY <1>0, <1>1, <1>3, <1>10, <2>1, PushFacts
<1>14. \A d \in Chan : d # c => UnchangedAt(d)
    BY <1>1, <1>2, <1>w DEF UnchangedAt
<1>15. Contents(c)'
    <2>1. ASSUME NEW i \in DOMAIN sendQueue'[c]
          PROVE  sendQueue'[c][i].value = Delivered(c)' + count'[c] + i
        <3>1. /\ i \in Nat /\ i + 1 \in DOMAIN sendQueue[c]
              /\ sendQueue'[c][i] = sendQueue[c][i + 1]
            BY <1>w
        <3>2. sendQueue[c][i + 1].value = asked[c] + count[c] + (i + 1)
            BY <1>4, <1>6, <3>1 DEF Contents
        <3>3. asked[c] + count[c] + (i + 1) = (asked[c] + 1) + count[c] + i
            BY <1>a, <3>1, Renumber
        <3> QED BY <1>1, <1>6, <3>1, <3>2, <3>3
    <2>2. sent'[c] = Delivered(c)' + count'[c] + Len(sendQueue'[c])
        <3>1. Len(sendQueue[c]) \in Nat /\ Len(sendQueue'[c]) = Len(sendQueue[c]) - 1
            BY <1>w
        <3>2. sent[c] = asked[c] + count[c] + Len(sendQueue[c])
            BY <1>4, <1>6 DEF Contents
        <3>3. sent'[c] = sent[c] /\ count'[c] = count[c]
            BY <1>1, <1>2
        <3>4. sent[c] = (asked[c] + 1) + count[c] + (Len(sendQueue[c]) - 1)
            BY <1>a, <3>1, <3>2, Renumber
        <3> QED BY <1>6, <3>1, <3>3, <3>4
    <2>3. count'[c] = 0 /\ capacity'[c] = 0
        BY <1>1, <1>2, <1>5
    <2> QED BY <1>2, <1>6, <2>1, <2>2, <2>3 DEF Contents
<1>16. Rendezvous(c)' /\ BlockedSenders(c)' /\ BlockedReceivers(c)'
    BY <1>1, <1>2, <1>5, <1>w DEF Rendezvous, BlockedReceivers
<1>17. ASSUME NEW f \in Fiber PROVE Resume(f)'
    <2>1. CASE f = current
        <3>1. /\ state'[f] = "Ready" /\ waits'[f] = RecvTicket(c, asked[c] + 1)
              /\ pushed'[f] = <<<<c, asked[c] + 1>>>>
            BY <1>2, <1>11, <1>w, <2>1
        <3> QED BY <3>1, ExpectedFacts DEF Resume
    <2>2. CASE f = w
        BY <1>2, <1>11, <1>w, <2>2, ExpectedFacts DEF Resume
    <2>3. CASE f # current /\ f # w
        BY <1>2, <1>11, <1>w, <2>3 DEF Resume, DeliveryInv, ResumeWithExpected
    <2> QED BY <2>1, <2>2, <2>3
<1>18. \A f \in Fiber : f # current /\ ~(state[f] = "Blocked" /\ waits[f].chan = c) =>
        state'[f] = state[f] /\ pushed'[f] = pushed[f] /\ waits'[f] = waits[f]
    BY <1>2, <1>11, <1>w
<1>19. \A f \in Fiber : f # current => state'[f] # "Running"
    BY <1>3, <1>w
<1> QED
    BY <1>0, <1>2, <1>w, <1>14, <1>15, <1>16, <1>17, <1>18, <1>19, ChannelOp

--------------------------------------------------------------------------------
(* The theorems.                                                           *)

\* Every step keeps the delivery invariant.
LEMMA NextDelivery == DeliveryInv /\ [Next]_vars => DeliveryInv'
<1> SUFFICES ASSUME DeliveryInv, [Next]_vars PROVE DeliveryInv'
    OBVIOUS
<1>0. TypeOK'
    BY NextTypeOK DEF DeliveryInv
<1>1. CASE UNCHANGED vars
    BY <1>0, <1>1, QuietDelivery DEF vars, fiberVars
<1>2. CASE DrainWakeups
    BY <1>0, <1>2, WakeupDelivery DEF DrainWakeups
<1>3. CASE WaitWakeup
    BY <1>0, <1>3, WakeupDelivery DEF WaitWakeup
<1>4. CASE DrainDone \/ Idle \/ Exit
    <2>1. /\ UNCHANGED <<state, runQueue, current, nfibers, chanVars, ioVars, stackVars>>
          /\ pc \notin {"fiber", "builtin", "yielded", "error"} /\ pc' \notin {"fiber", "builtin"}
        BY <1>4 DEF DrainDone, Idle, Exit, fiberVars
    <2> QED BY <1>0, <2>1, QuietDelivery
<1>5. CASE Dispatch
    BY <1>0, <1>5, DispatchDelivery
<1>6. CASE Requeue
    BY <1>0, <1>6, RequeueDelivery
<1>7. CASE Preempt \/ OpOther \/ RuntimeError \/ OpReturn \/ StartBuiltin \/ BuiltinReturns
    <2>1. /\ UNCHANGED <<state, runQueue, current, nfibers, chanVars, ioVars, stackVars>>
          /\ pc \in {"fiber", "builtin"} /\ pc' \in {"fiber", "builtin", "yielded", "error"}
        BY <1>7 DEF Preempt, OpOther, RuntimeError, OpReturn, StartBuiltin, BuiltinReturns,
           Instruction, InFiber, Continues, Yields, fiberVars
    <2> QED BY <1>0, <2>1, QuietDelivery
<1>8. CASE LoopExit
    BY <1>0, <1>8, LoopExitDelivery
<1>9. CASE OpSpawn
    BY <1>0, <1>9, SpawnDelivery
<1>10. CASE OpCallAsync
    BY <1>0, <1>10, CallAsyncDelivery
<1>11. CASE OpMakeChannel
    BY <1>0, <1>11, MakeChannelDelivery
<1>12. ASSUME NEW c \in Chan, OpSend(c) PROVE DeliveryInv'
    BY <1>0, <1>12, HandoffDelivery, SendBufferDelivery, SendBlockDelivery DEF OpSend
<1>13. ASSUME NEW c \in Chan, OpReceive(c) PROVE DeliveryInv'
    BY <1>0, <1>13, ReceiveBufferDelivery, ReceiveUnblockDelivery, RendezvousDelivery,
       ReceiveBlockDelivery DEF OpReceive
<1>14. ASSUME NEW f \in Fiber, IoDone(f) PROVE DeliveryInv'
    BY <1>0, <1>14, IoDoneDelivery
<1> QED
    BY <1>1, <1>2, <1>3, <1>4, <1>5, <1>6, <1>7, <1>8, <1>9, <1>10, <1>11, <1>12, <1>13, <1>14
    DEF Next, VMStep, RunStep, FiberStep, Finished

(* The delivery invariant holds in every reachable state.                  *)
THEOREM DeliveryInvariant == Spec => []DeliveryInv
BY InitDelivery, NextDelivery, PTL DEF Spec

(* send and receive: the n-th receive yields the n-th value sent, for any  *)
(* number of fibers, channels and operations and any buffer sizes.         *)
THEOREM NthReceiveGetsNthValue == Spec => []ResumeWithExpected
<1>1. DeliveryInv => ResumeWithExpected
    BY DEF DeliveryInv
<1> QED BY <1>1, DeliveryInvariant, PTL

(* send and receive: nothing is lost, duplicated or reordered in a channel *)
(* and no sender and receiver are left waiting for each other.             *)
THEOREM ChannelsInOrder == Spec => [](ChannelContents /\ NoMissedRendezvous)
<1>1. DeliveryInv => ChannelContents /\ NoMissedRendezvous
    BY DEF DeliveryInv
<1> QED BY <1>1, DeliveryInvariant, PTL
================================================================================
