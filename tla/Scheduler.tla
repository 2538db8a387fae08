------------------------------- MODULE Scheduler -------------------------------
(***************************************************************************)
(* The fiber scheduler of the bytecode VM: vm/scheduler.go, vm/channel.go, *)
(* vm/fiber.go and the parts of vm/vm.go that start, suspend, resume and   *)
(* stop fibers (Run, the loop of runFiber, OpSpawn, OpMakeChannel, OpSend, *)
(* OpReceive, OpReturn and the asynchronous case of callBuiltIn).          *)
(*                                                                         *)
(* One VM thread executes everything except the goroutine of an            *)
(* asynchronous builtin, which only sends on pendingWakeups.  Programs are *)
(* arbitrary: while a fiber runs, any instruction may come next.           *)
(*                                                                         *)
(* Values are abstracted to where they come from: the n-th value sent on   *)
(* channel c is <<c, n>>.  A fiber's stack is abstracted to what           *)
(* pushToFiberStack put there since the fiber was last dispatched.         *)
(***************************************************************************)
EXTENDS Integers, Sequences, FiniteSets

CONSTANTS MaxFibers,        \* bound on the spawned fibers
          MaxChans,         \* bound on the channels a program makes
          Capacities,       \* the buffer sizes a program asks for
          MaxOps,           \* bound on sends, and on receives, per channel
          WakeupCap,        \* size of the Go channel pendingWakeups (64)
          FiberQuantum,     \* fiberQuantum (1024)
          DebuggerAttached  \* vm.debugger # nil

ASSUME BoundsAssumption ==
    MaxFibers \in Nat /\ MaxChans \in Nat /\ MaxOps \in Nat
ASSUME CapacitiesAssumption == Capacities \subseteq Nat
ASSUME WakeupCapAssumption == WakeupCap \in Nat \ {0}
ASSUME QuantumAssumption == FiberQuantum \in Nat \ {0, 1}
ASSUME DebuggerAssumption == DebuggerAttached \in BOOLEAN

Main  == 0
Fiber == Main .. MaxFibers    \* Main, and the i-th element of s.fibers as i
Chan  == 1 .. MaxChans

Value    == Nat \X Nat
IoResult == <<0, 0>>          \* what an asynchronous builtin hands back

VARIABLES
    state,          \* f.state; "Unborn" before NewFiber
    runQueue,       \* s.runQueue
    current,        \* s.current
    nfibers,        \* len(s.fibers): spawned fibers, the main fiber is not one
    nextChanId,     \* s.nextChanId
    capacity,       \* ch.capacity
    buffer,         \* ch.buffer: slot -> number of the value in it
    head,           \* ch.head
    tail,           \* ch.tail
    count,          \* ch.count
    sendQueue,      \* ch.sendQueue: [fiber, value]
    recvQueue,      \* ch.recvQueue
    pendingWakeups, \* s.pendingWakeups, the fibers in it
    ioBlockedCount, \* s.ioBlockedCount
    inflight,       \* fibers whose AsyncFn goroutine has not delivered yet
    budget,         \* budget of the running slice
    returned,       \* spawned fibers whose frameIdx is 0
    pc,             \* where the VM thread is in Run
    pushed,         \* pushed[f]: values pushToFiberStack put on f's stack
    sent,           \* history: OpSends on the channel
    asked,          \* history: OpReceives on the channel
    waits           \* history: the operation f was suspended in

fiberVars == <<state, runQueue, current, nfibers, returned>>
chanVars  == <<nextChanId, capacity, buffer, head, tail, count, sendQueue,
               recvQueue, sent, asked>>
ioVars    == <<pendingWakeups, ioBlockedCount, inflight>>
stackVars == <<pushed, waits>>
vars == <<fiberVars, chanVars, ioVars, stackVars, budget, pc>>

SenderWait == [fiber : Fiber, value : Nat]

FiberState == {"Unborn", "Ready", "Running", "Blocked", "Done"}

\* Where Run is: draining wakeups, choosing a fiber, blocked on
\* pendingWakeups, inside runFiber, inside a synchronous builtin that runFiber
\* called, back from runFiber; or Run has returned nil, the deadlock error or
\* a runtime error.
Location == {"drain", "next", "wait", "fiber", "builtin", "yielded",
             "ok", "deadlock", "error"}

\* Which operation a fiber is suspended in: the n-th send, or receive, on chan.
Ticket == [kind : {"none", "send", "recv", "io"}, chan : Nat, n : Nat]
NoTicket == [kind |-> "none", chan |-> 0, n |-> 0]
IoTicket == [kind |-> "io", chan |-> 0, n |-> 0]
SendTicket(c, n) == [kind |-> "send", chan |-> c, n |-> n]
RecvTicket(c, n) == [kind |-> "recv", chan |-> c, n |-> n]

Made == 1 .. nextChanId
Halted == pc \in {"ok", "deadlock", "error"}

\* make([]object.Object, capacity): every slot empty.
NewBuffer(cap) == [i \in 0 .. (cap - 1) |-> 0]

--------------------------------------------------------------------------------
\* NewScheduler and New: only the main fiber, already in the run queue.
Init ==
    /\ state = [f \in Fiber |-> IF f = Main THEN "Ready" ELSE "Unborn"]
    /\ runQueue = <<Main>>
    /\ current = Main
    /\ nfibers = 0
    /\ returned = {}
    /\ nextChanId = 0
    /\ capacity = [c \in Chan |-> 0]
    /\ buffer = [c \in Chan |-> NewBuffer(0)]
    /\ head = [c \in Chan |-> 0]
    /\ tail = [c \in Chan |-> 0]
    /\ count = [c \in Chan |-> 0]
    /\ sendQueue = [c \in Chan |-> << >>]
    /\ recvQueue = [c \in Chan |-> << >>]
    /\ pendingWakeups = << >>
    /\ ioBlockedCount = 0
    /\ inflight = {}
    /\ budget = 0
    /\ pc = "drain"
    /\ pushed = [f \in Fiber |-> << >>]
    /\ sent = [c \in Chan |-> 0]
    /\ asked = [c \in Chan |-> 0]
    /\ waits = [f \in Fiber |-> NoTicket]

--------------------------------------------------------------------------------
(* Helpers of the scheduler.                                               *)

\* s.enqueue of one fiber, and of one and then another.
Enqueue(f) ==
    /\ runQueue' = Append(runQueue, f)
    /\ state' = [state EXCEPT ![f] = "Ready"]

EnqueueBoth(f, g) ==
    /\ runQueue' = Append(Append(runQueue, f), g)
    /\ state' = [state EXCEPT ![f] = "Ready", ![g] = "Ready"]

\* pushToFiberStack
PushToFiberStack(f, v) == pushed' = [pushed EXCEPT ![f] = Append(@, v)]

\* Mutant: the ring is taken one slot too large.
MutAdvance(i, cap) == (i + 1) % (cap + 1)

\* The next index of a ring of the given size.
Advance(i, cap) == (i + 1) % cap

\* Mutant: the last fiber is not looked at.
MutHasBlockedFibers == \E f \in 1 .. (nfibers - 1) : state[f] = "Blocked"

\* hasBlockedFibers: s.fibers does not hold the main fiber.
HasBlockedFibers == \E f \in 1 .. nfibers : state[f] = "Blocked"

--------------------------------------------------------------------------------
(* Run                                                                     *)

\* Mutant: the counter is not decremented.
MutTakeWakeup ==
    /\ pendingWakeups # << >>
    /\ pendingWakeups' = Tail(pendingWakeups)
    /\ PushToFiberStack(Head(pendingWakeups), IoResult)
    /\ Enqueue(Head(pendingWakeups))
    /\ UNCHANGED <<chanVars, current, nfibers, returned, ioBlockedCount, inflight,
                   waits, budget>>

\* A wakeup is taken off pendingWakeups: its fiber gets the result.
TakeWakeup ==
    /\ pendingWakeups # << >>
    /\ pendingWakeups' = Tail(pendingWakeups)
    /\ ioBlockedCount' = ioBlockedCount - 1
    /\ PushToFiberStack(Head(pendingWakeups), IoResult)
    /\ Enqueue(Head(pendingWakeups))
    /\ UNCHANGED <<chanVars, current, nfibers, returned, inflight, waits, budget>>

\* drainWakeups, one round of its loop.
DrainWakeups == pc = "drain" /\ TakeWakeup /\ UNCHANGED pc

\* Mutant: the loop may end while wakeups are pending.
MutDrainDone ==
    /\ pc = "drain"
    /\ pc' = "next"
    /\ UNCHANGED <<fiberVars, chanVars, ioVars, stackVars, budget>>

\* drainWakeups: the select found nothing.
DrainDone ==
    /\ pc = "drain"
    /\ pendingWakeups = << >>
    /\ pc' = "next"
    /\ UNCHANGED <<fiberVars, chanVars, ioVars, stackVars, budget>>

\* Mutant: the newest fiber of the run queue is taken.
MutDispatch ==
    /\ pc = "next"
    /\ runQueue # << >>
    /\ LET f == runQueue[Len(runQueue)] IN
          /\ runQueue' = SubSeq(runQueue, 1, Len(runQueue) - 1)
          /\ current' = f
          /\ state' = [state EXCEPT ![f] = "Running"]
          /\ pushed' = [pushed EXCEPT ![f] = << >>]
          /\ waits' = [waits EXCEPT ![f] = NoTicket]
    /\ budget' = FiberQuantum
    /\ pc' = "fiber"
    /\ UNCHANGED <<nfibers, returned, chanVars, ioVars>>

\* next() returned a fiber: it runs, with a fresh budget.
Dispatch ==
    /\ pc = "next"
    /\ runQueue # << >>
    /\ runQueue' = Tail(runQueue)
    /\ current' = Head(runQueue)
    /\ state' = [state EXCEPT ![Head(runQueue)] = "Running"]
    /\ pushed' = [pushed EXCEPT ![Head(runQueue)] = << >>]
    /\ waits' = [waits EXCEPT ![Head(runQueue)] = NoTicket]
    /\ budget' = FiberQuantum
    /\ pc' = "fiber"
    /\ UNCHANGED <<nfibers, returned, chanVars, ioVars>>

\* next() returned nil and I/O is outstanding: Run blocks on pendingWakeups.
Idle ==
    /\ pc = "next"
    /\ runQueue = << >>
    /\ ioBlockedCount > 0
    /\ pc' = "wait"
    /\ UNCHANGED <<fiberVars, chanVars, ioVars, stackVars, budget>>

WaitWakeup == pc = "wait" /\ TakeWakeup /\ pc' = "drain"

\* Mutant: outstanding I/O is not considered.
MutExit ==
    /\ pc = "next"
    /\ runQueue = << >>
    /\ pc' = IF HasBlockedFibers THEN "deadlock" ELSE "ok"
    /\ UNCHANGED <<fiberVars, chanVars, ioVars, stackVars, budget>>

\* next() returned nil and no I/O is outstanding: Run returns.
Exit ==
    /\ pc = "next"
    /\ runQueue = << >>
    /\ ioBlockedCount = 0
    /\ pc' = IF HasBlockedFibers THEN "deadlock" ELSE "ok"
    /\ UNCHANGED <<fiberVars, chanVars, ioVars, stackVars, budget>>

\* Mutant: every fiber is put back, whatever became of it.
MutRequeue ==
    /\ pc = "yielded"
    /\ Enqueue(current)
    /\ pc' = "drain"
    /\ UNCHANGED <<current, nfibers, returned, chanVars, ioVars, stackVars, budget>>

\* Back from runFiber: a fiber that is still Running is put back in the queue.
Requeue ==
    /\ pc = "yielded"
    /\ IF state[current] = "Running"
       THEN Enqueue(current)
       ELSE UNCHANGED <<state, runQueue>>
    /\ pc' = "drain"
    /\ UNCHANGED <<current, nfibers, returned, chanVars, ioVars, stackVars, budget>>

--------------------------------------------------------------------------------
(* runFiber.  Its loop runs while there is a frame with code left; before  *)
(* each instruction the budget is charged, unless a debugger is attached.  *)

Unlimited == DebuggerAttached

Charged == IF Unlimited THEN budget ELSE budget - 1
Exhausted == ~Unlimited /\ Charged <= 0

InFiber == pc = "fiber" /\ current \notin returned

\* The loop head lets one more instruction execute.
Instruction ==
    /\ InFiber
    /\ ~Exhausted
    /\ budget' = Charged

\* The instruction goes on to the next one, or leaves runFiber.
Continues == UNCHANGED pc
Yields == pc' = "yielded"

\* The loop head: the budget is used up.
Preempt ==
    /\ InFiber
    /\ Exhausted
    /\ budget' = Charged
    /\ Yields
    /\ UNCHANGED <<fiberVars, chanVars, ioVars, stackVars>>

\* The loop ends: a returned fiber has no frame, the main fiber no code left.
LoopExit ==
    /\ pc = "fiber"
    /\ current \in returned \/ current = Main
    /\ state' = [state EXCEPT ![current] = "Done"]
    /\ Yields
    /\ UNCHANGED <<runQueue, current, nfibers, returned, chanVars, ioVars,
                   stackVars, budget>>

\* Any instruction that touches only the fiber's own frames and stack.
OpOther ==
    /\ Instruction
    /\ Continues
    /\ UNCHANGED <<fiberVars, chanVars, ioVars, stackVars>>

\* An instruction fails: runFiber, and so Run, returns the error.
RuntimeError ==
    /\ Instruction
    /\ pc' = "error"
    /\ UNCHANGED <<fiberVars, chanVars, ioVars, stackVars>>

\* OpCall of a builtin without an AsyncFn: callBuiltIn calls it on the thread
\* of the VM.
StartBuiltin ==
    /\ Instruction
    /\ pc' = "builtin"
    /\ UNCHANGED <<fiberVars, chanVars, ioVars, stackVars>>

\* It returns a result, or an error that ends the program.  A builtin that
\* writes to a connection or closes one waits for a peer, which may never let
\* it return.
BuiltinReturns ==
    /\ pc = "builtin"
    /\ pc' \in {"fiber", "error"}
    /\ UNCHANGED <<fiberVars, chanVars, ioVars, stackVars, budget>>

\* OpSpawn: Add appends to fibers and to runQueue; the spawner goes on.
OpSpawn ==
    /\ Instruction
    /\ nfibers < MaxFibers
    /\ nfibers' = nfibers + 1
    /\ Enqueue(nfibers + 1)
    /\ Continues
    /\ UNCHANGED <<current, returned, chanVars, ioVars, stackVars>>

\* OpReturn or OpReturnValue popped a spawned fiber's last frame: runFiber
\* returns with the fiber still Running.
OpReturn ==
    /\ Instruction
    /\ current # Main
    /\ returned' = returned \cup {current}
    /\ Yields
    /\ UNCHANGED <<state, runQueue, current, nfibers, chanVars, ioVars, stackVars>>

\* Mutant: the fiber is not marked Blocked.
MutOpCallAsync ==
    /\ Instruction
    /\ ioBlockedCount' = ioBlockedCount + 1
    /\ inflight' = inflight \cup {current}
    /\ waits' = [waits EXCEPT ![current] = IoTicket]
    /\ Yields
    /\ UNCHANGED <<fiberVars, chanVars, pendingWakeups, pushed>>

\* OpCall of a builtin with an AsyncFn: callBuiltIn suspends the fiber and
\* starts the goroutine.
OpCallAsync ==
    /\ Instruction
    /\ state' = [state EXCEPT ![current] = "Blocked"]
    /\ ioBlockedCount' = ioBlockedCount + 1
    /\ inflight' = inflight \cup {current}
    /\ waits' = [waits EXCEPT ![current] = IoTicket]
    /\ Yields
    /\ UNCHANGED <<runQueue, current, nfibers, returned, chanVars,
                   pendingWakeups, pushed>>

--------------------------------------------------------------------------------
(* Channels                                                                *)

\* OpMakeChannel: nextChannelId and registerChannel.
OpMakeChannel ==
    /\ Instruction
    /\ nextChanId < MaxChans
    /\ nextChanId' = nextChanId + 1
    /\ \E cap \in Capacities :
          /\ capacity' = [capacity EXCEPT ![nextChanId + 1] = cap]
          /\ buffer' = [buffer EXCEPT ![nextChanId + 1] = NewBuffer(cap)]
    /\ Continues
    /\ UNCHANGED <<fiberVars, ioVars, stackVars, head, tail, count, sendQueue,
                   recvQueue, sent, asked>>

\* OpSend starts: its value is the channel's next one.
StartSend(c) ==
    /\ Instruction
    /\ Yields
    /\ c \in Made
    /\ sent[c] < MaxOps
    /\ sent' = [sent EXCEPT ![c] = @ + 1]
    /\ waits' = [waits EXCEPT ![current] = SendTicket(c, sent[c] + 1)]
    /\ UNCHANGED <<current, nfibers, returned, nextChanId, capacity, head, asked,
                   ioVars>>

\* Case 1 of send: the oldest waiting receiver gets the value.
SendHandoff(c) ==
    /\ StartSend(c)
    /\ recvQueue[c] # << >>
    /\ recvQueue' = [recvQueue EXCEPT ![c] = Tail(@)]
    /\ PushToFiberStack(Head(recvQueue[c]), <<c, sent[c] + 1>>)
    /\ EnqueueBoth(Head(recvQueue[c]), current)
    /\ UNCHANGED <<buffer, tail, count, sendQueue>>

\* Mutant: one value too many fits.
MutHasSpace(c) == capacity[c] > 0 /\ count[c] <= capacity[c]

\* The test of case 2 of send.
HasSpace(c) == capacity[c] > 0 /\ count[c] < capacity[c]

\* Case 2 of send: the value goes into the ring buffer.
SendBuffer(c) ==
    /\ StartSend(c)
    /\ recvQueue[c] = << >>
    /\ HasSpace(c)
    /\ buffer' = [buffer EXCEPT ![c][tail[c]] = sent[c] + 1]
    /\ tail' = [tail EXCEPT ![c] = Advance(@, capacity[c])]
    /\ count' = [count EXCEPT ![c] = @ + 1]
    /\ Enqueue(current)
    /\ UNCHANGED <<sendQueue, recvQueue, pushed>>

\* Case 3 of send: the sender blocks, its value waits with it.
SendBlock(c) ==
    /\ StartSend(c)
    /\ recvQueue[c] = << >>
    /\ ~HasSpace(c)
    /\ state' = [state EXCEPT ![current] = "Blocked"]
    /\ sendQueue' = [sendQueue EXCEPT
                       ![c] = Append(@, [fiber |-> current, value |-> sent[c] + 1])]
    /\ UNCHANGED <<runQueue, buffer, tail, count, recvQueue, pushed>>

\* OpReceive starts: it is the channel's next request.
StartReceive(c) ==
    /\ Instruction
    /\ Yields
    /\ c \in Made
    /\ asked[c] < MaxOps
    /\ asked' = [asked EXCEPT ![c] = @ + 1]
    /\ waits' = [waits EXCEPT ![current] = RecvTicket(c, asked[c] + 1)]
    /\ UNCHANGED <<current, nfibers, returned, nextChanId, capacity, sent, ioVars>>

\* The test of case 1 of receive.
HasData(c) == capacity[c] > 0 /\ count[c] > 0

\* Mutant: head is advanced before the value is read.
MutTakeOldest(c) ==
    /\ StartReceive(c)
    /\ HasData(c)
    /\ head' = [head EXCEPT ![c] = Advance(@, capacity[c])]
    /\ PushToFiberStack(current, <<c, buffer[c][Advance(head[c], capacity[c])]>>)

\* Case 1 of receive: the oldest buffered value is taken ...
TakeOldest(c) ==
    /\ StartReceive(c)
    /\ HasData(c)
    /\ head' = [head EXCEPT ![c] = Advance(@, capacity[c])]
    /\ PushToFiberStack(current, <<c, buffer[c][head[c]]>>)

\* ... and nobody waits for the space,
ReceiveBuffer(c) ==
    /\ TakeOldest(c)
    /\ sendQueue[c] = << >>
    /\ count' = [count EXCEPT ![c] = @ - 1]
    /\ Enqueue(current)
    /\ UNCHANGED <<buffer, tail, sendQueue, recvQueue>>

\* ... or the oldest waiting sender's value moves into it.
ReceiveUnblock(c) ==
    /\ TakeOldest(c)
    /\ sendQueue[c] # << >>
    /\ sendQueue' = [sendQueue EXCEPT ![c] = Tail(@)]
    /\ buffer' = [buffer EXCEPT ![c][tail[c]] = Head(sendQueue[c]).value]
    /\ tail' = [tail EXCEPT ![c] = Advance(@, capacity[c])]
    /\ EnqueueBoth(Head(sendQueue[c]).fiber, current)
    /\ UNCHANGED <<count, recvQueue>>

\* Mutant: the newest waiting sender is served.
MutReceiveRendezvous(c) ==
    /\ StartReceive(c)
    /\ ~HasData(c)
    /\ sendQueue[c] # << >>
    /\ LET n == Len(sendQueue[c]) IN
          /\ sendQueue' = [sendQueue EXCEPT ![c] = SubSeq(@, 1, n - 1)]
          /\ PushToFiberStack(current, <<c, sendQueue[c][n].value>>)
          /\ EnqueueBoth(sendQueue[c][n].fiber, current)
    /\ UNCHANGED <<buffer, head, tail, count, recvQueue>>

\* Case 2 of receive: the value is taken from a waiting sender.
ReceiveRendezvous(c) ==
    /\ StartReceive(c)
    /\ ~HasData(c)
    /\ sendQueue[c] # << >>
    /\ sendQueue' = [sendQueue EXCEPT ![c] = Tail(@)]
    /\ PushToFiberStack(current, <<c, Head(sendQueue[c]).value>>)
    /\ EnqueueBoth(Head(sendQueue[c]).fiber, current)
    /\ UNCHANGED <<buffer, head, tail, count, recvQueue>>

\* Case 3 of receive: the receiver blocks.
ReceiveBlock(c) ==
    /\ StartReceive(c)
    /\ ~HasData(c)
    /\ sendQueue[c] = << >>
    /\ state' = [state EXCEPT ![current] = "Blocked"]
    /\ recvQueue' = [recvQueue EXCEPT ![c] = Append(@, current)]
    /\ UNCHANGED <<runQueue, buffer, head, tail, count, sendQueue, pushed>>

OpSend(c) == SendHandoff(c) \/ SendBuffer(c) \/ SendBlock(c)

OpReceive(c) ==
    ReceiveBuffer(c) \/ ReceiveUnblock(c) \/ ReceiveRendezvous(c) \/ ReceiveBlock(c)

--------------------------------------------------------------------------------
\* The goroutine of an asynchronous builtin calls done, which blocks while
\* pendingWakeups is full.
IoDone(f) ==
    /\ f \in inflight
    /\ Len(pendingWakeups) < WakeupCap
    /\ pendingWakeups' = Append(pendingWakeups, f)
    /\ inflight' = inflight \ {f}
    /\ UNCHANGED <<fiberVars, chanVars, ioBlockedCount, stackVars, budget, pc>>

RunStep == DrainWakeups \/ DrainDone \/ Dispatch \/ Idle \/ WaitWakeup \/ Exit \/ Requeue

FiberStep ==
    \/ Preempt \/ LoopExit
    \/ OpOther \/ RuntimeError \/ StartBuiltin \/ OpSpawn \/ OpReturn \/ OpCallAsync
    \/ OpMakeChannel
    \/ \E c \in Chan : OpSend(c) \/ OpReceive(c)

VMStep == RunStep \/ FiberStep

\* Run has returned: nothing more happens.
Finished == Halted /\ UNCHANGED vars

Next == VMStep \/ BuiltinReturns \/ (~Halted /\ \E f \in Fiber : IoDone(f)) \/ Finished

Spec == Init /\ [][Next]_vars

\* The VM thread is never descheduled for ever.  Nothing is assumed of the
\* goroutines, as an accept or a read may never complete, and nothing of a
\* synchronous builtin: BuiltinReturns is no VMStep.
FairSpec == Spec /\ WF_vars(VMStep)

--------------------------------------------------------------------------------
(* Properties                                                              *)

FiberTypeOK ==
    /\ state \in [Fiber -> FiberState]
    /\ runQueue \in Seq(Fiber)
    /\ current \in Fiber
    /\ nfibers \in 0 .. MaxFibers
    /\ returned \subseteq Fiber
    /\ budget \in Int
    /\ pc \in Location

ChanTypeOK ==
    /\ nextChanId \in 0 .. MaxChans
    /\ capacity \in [Chan -> Nat]
    /\ buffer = [c \in Chan |-> buffer[c]]
    /\ head \in [Chan -> Nat]
    /\ tail \in [Chan -> Nat]
    /\ count \in [Chan -> Nat]
    /\ \A c \in Chan : buffer[c] \in [0 .. (capacity[c] - 1) -> Nat]
    /\ \A c \in Chan : capacity[c] > 0 => head[c] < capacity[c] /\ tail[c] < capacity[c]
    /\ \A c \in Chan \ Made : capacity[c] = 0 /\ head[c] = 0 /\ tail[c] = 0
    /\ sendQueue \in [Chan -> Seq(SenderWait)]
    /\ recvQueue \in [Chan -> Seq(Fiber)]
    /\ sent \in [Chan -> Nat]
    /\ asked \in [Chan -> Nat]

IoTypeOK ==
    /\ pendingWakeups \in Seq(Fiber)
    /\ ioBlockedCount \in Int
    /\ inflight \subseteq Fiber

StackTypeOK ==
    /\ pushed \in [Fiber -> Seq(Value)]
    /\ waits \in [Fiber -> Ticket]

(* Types; an index into a ring lies inside the ring (head, tail).          *)
TypeOK == FiberTypeOK /\ ChanTypeOK /\ IoTypeOK /\ StackTypeOK

\* What pushToFiberStack must have put on the stack of a fiber that resumes
\* after the operation w.
Expected(w) ==
    CASE w.kind = "recv" -> <<<<w.chan, w.n>>>>
      [] w.kind = "io" -> <<IoResult>>
      [] OTHER -> << >>

\* A fiber that may resume has exactly that; one still suspended has nothing.
Resume(f) ==
    /\ state[f] = "Ready" => pushed[f] = Expected(waits[f])
    /\ state[f] = "Blocked" => pushed[f] = << >>

(* The n-th receive on a channel yields the n-th value sent on it, whether *)
(* it went through the ring buffer, the send queue or straight from hand   *)
(* to hand; an asynchronous builtin yields its result; a send yields       *)
(* nothing.  A fiber that is still suspended has been given nothing.       *)
(* (send, receive, pushToFiberStack, drainWakeups)                         *)
ResumeWithExpected == \A f \in Fiber : Resume(f)

(* A sender goes on only when its value fits: on an unbuffered channel     *)
(* only once a receiver has asked for it, on a buffered one when at most   *)
(* capacity values are ahead of the receivers.  (README: "a send blocks    *)
(* until a receiver is ready", "until the buffer is full".)                *)
SendCompletesInTime ==
    \A f \in Fiber : state[f] = "Ready" /\ waits[f].kind = "send" =>
        waits[f].n <= asked[waits[f].chan] + capacity[waits[f].chan]

\* Waiting receivers mean that nothing is buffered and nobody waits to send,
\* and waiting senders mean that the buffer is full.
Rendezvous(c) ==
    /\ recvQueue[c] # << >> => count[c] = 0 /\ sendQueue[c] = << >>
    /\ sendQueue[c] # << >> => count[c] = capacity[c]

(* send and receive never leave a sender and a receiver waiting for each   *)
(* other.                                                                  *)
NoMissedRendezvous == \A c \in Chan : Rendezvous(c)

\* The values of c that reached their receivers; the slot of the i-th value
\* in the buffer, counted from the oldest.
Delivered(c) == asked[c] - Len(recvQueue[c])
SlotOf(c, i) == (head[c] + i) % capacity[c]

Contents(c) ==
    /\ Delivered(c) >= 0
    /\ sent[c] = Delivered(c) + count[c] + Len(sendQueue[c])
    /\ count[c] <= capacity[c]
    /\ capacity[c] > 0 => tail[c] = SlotOf(c, count[c])
    /\ \A i \in 0 .. (count[c] - 1) : buffer[c][SlotOf(c, i)] = Delivered(c) + i + 1
    /\ \A i \in DOMAIN sendQueue[c] :
          sendQueue[c][i].value = Delivered(c) + count[c] + i

(* Nothing is lost, duplicated or reordered inside a channel: the values   *)
(* sent are those delivered, then those in the ring from head on, then     *)
(* those of the waiting senders, in this order and without a gap; tail is  *)
(* count slots after head.  (the comment in channel.go on head, tail and   *)
(* count; send; receive)                                                   *)
ChannelContents == \A c \in Chan : Contents(c)

BlockedSenders(c) ==
    \A i \in DOMAIN sendQueue[c] :
        /\ state[sendQueue[c][i].fiber] = "Blocked"
        /\ waits[sendQueue[c][i].fiber] = SendTicket(c, sendQueue[c][i].value)

BlockedReceivers(c) ==
    \A i \in DOMAIN recvQueue[c] :
        /\ state[recvQueue[c][i]] = "Blocked"
        /\ waits[recvQueue[c][i]] = RecvTicket(c, Delivered(c) + i)

BlockedOnIo ==
    /\ \A f \in inflight : state[f] = "Blocked" /\ waits[f] = IoTicket
    /\ \A i \in DOMAIN pendingWakeups :
          /\ state[pendingWakeups[i]] = "Blocked"
          /\ waits[pendingWakeups[i]] = IoTicket

(* A fiber in a wait queue is Blocked in just the operation the queue is   *)
(* for, and the wait queues are in the order of the operations.  (A stale  *)
(* entry would hand a value to a fiber that no longer expects it.)         *)
WaitersAreBlocked ==
    BlockedOnIo /\ \A c \in Chan : BlockedSenders(c) /\ BlockedReceivers(c)

\* The run queue positions that hold f.
Positions(f) == {i \in DOMAIN runQueue : runQueue[i] = f}

\* A suspended fiber is where the operation that can wake it will find it.
Parked(f) ==
    LET w == waits[f] IN
    \/ w.kind = "send" /\ \E i \in DOMAIN sendQueue[w.chan] :
           sendQueue[w.chan][i] = [fiber |-> f, value |-> w.n]
    \/ w.kind = "recv" /\ \E i \in DOMAIN recvQueue[w.chan] :
           recvQueue[w.chan][i] = f
    \/ w.kind = "io" /\ (f \in inflight <=> ~\E i \in DOMAIN pendingWakeups :
           pendingWakeups[i] = f)

(* Every live fiber is in exactly one place.  A ready fiber is in the run  *)
(* queue once, and nothing else is; at most the current fiber runs; a      *)
(* suspended fiber is where the operation that can wake it will find it.   *)
(* A fiber lost from all queues would never run again and one queued twice *)
(* would run with a stack it shares with itself.  (Add, next, enqueue, the *)
(* re-enqueue in Run, send, receive, callBuiltIn)                          *)
OnePlace ==
    \A f \in Fiber :
        /\ Cardinality(Positions(f)) = IF state[f] = "Ready" THEN 1 ELSE 0
        /\ state[f] = "Running" => f = current /\ pc \in {"fiber", "builtin", "yielded", "error"}
        /\ state[f] = "Blocked" => Parked(f)

(* ioBlockedCount, which Run trusts when it decides to block on            *)
(* pendingWakeups or to give up, counts exactly the goroutines that have   *)
(* not delivered and the wakeups not yet taken: Run never blocks on a      *)
(* wakeup that cannot come and never gives up while one will.              *)
IoAccounted ==
    ioBlockedCount = Cardinality(inflight) + Len(pendingWakeups)

\* The run queue holds ready fibers, none of them twice.
RunQueueReady ==
    /\ \A i \in DOMAIN runQueue : state[runQueue[i]] = "Ready"
    /\ \A i, j \in DOMAIN runQueue : runQueue[i] = runQueue[j] => i = j

\* Only the current fiber runs, and nothing is left over from its last wait.
OneRunning ==
    /\ \A f \in Fiber : state[f] = "Running" =>
          /\ f = current /\ pc \in {"fiber", "builtin", "yielded", "error"}
          /\ pushed[f] = << >> /\ waits[f] = NoTicket
    /\ pc \in {"fiber", "builtin"} => state[current] = "Running"

\* A wakeup is delivered once.
WakeupOnce ==
    /\ \A i, j \in DOMAIN pendingWakeups : pendingWakeups[i] = pendingWakeups[j] => i = j
    /\ \A i \in DOMAIN pendingWakeups : pendingWakeups[i] \notin inflight

\* What does not exist yet is untouched.
Newborn ==
    /\ \A f \in Fiber : f > nfibers =>
          state[f] = "Unborn" /\ pushed[f] = << >> /\ waits[f] = NoTicket
    /\ \A c \in Chan \ Made :
          /\ sent[c] = 0 /\ asked[c] = 0 /\ count[c] = 0
          /\ sendQueue[c] = << >> /\ recvQueue[c] = << >>

(* The inductive invariant behind ResumeWithExpected: a value reaches the  *)
(* right receiver because the channel's contents are in order, the wait    *)
(* queues hold exactly the suspended operations in order, and no fiber is  *)
(* in two queues at once.  (send, receive, Run, callBuiltIn, OpSpawn)      *)
DeliveryInv ==
    /\ TypeOK
    /\ ChannelContents /\ NoMissedRendezvous
    /\ WaitersAreBlocked /\ ResumeWithExpected
    /\ RunQueueReady /\ OneRunning /\ WakeupOnce /\ Newborn

\* No ready fiber is missing from the run queue and no suspended fiber from
\* the place it waits in.
NoneLost ==
    /\ \A f \in Fiber : state[f] = "Ready" => \E i \in DOMAIN runQueue : runQueue[i] = f
    /\ \A f \in Fiber : state[f] = "Blocked" => Parked(f)

\* The fibers in s.fibers have been made, and the channel a fiber was last
\* suspended on is one that exists.
Existing ==
    /\ \A f \in Fiber : f <= nfibers => state[f] # "Unborn"
    /\ \A f \in Fiber : waits[f].kind \in {"send", "recv"} => waits[f].chan \in Made

\* Run returned with nothing to run and no I/O outstanding, and told a
\* deadlock from a normal end by the blocked spawned fibers.
Stopped ==
    pc \in {"ok", "deadlock"} =>
        runQueue = << >> /\ ioBlockedCount = 0 /\ (pc = "deadlock" <=> HasBlockedFibers)

(* The inductive invariant behind OnePlace, IoAccounted and what the ends  *)
(* of Run mean: values are delivered in order, no fiber is lost from its   *)
(* queue, the I/O counter is exact, and a sender that goes on has room.    *)
(* (Run, send, receive, callBuiltIn, drainWakeups, OpSpawn)                *)
PlacementInv ==
    /\ DeliveryInv
    /\ NoneLost /\ Existing /\ Stopped
    /\ IoAccounted /\ SendCompletesInTime

(* "deadlock: all fibers blocked" is reported only when it is so: no fiber *)
(* can run, no goroutine will wake one, and at least one spawned fiber is  *)
(* waiting on a channel that nobody will ever serve.  (Run)                *)
DeadlockReportSound ==
    pc = "deadlock" =>
        /\ \A f \in Fiber : state[f] \in {"Unborn", "Blocked", "Done"}
        /\ inflight = {} /\ pendingWakeups = << >>
        /\ \E f \in 1 .. nfibers : \E c \in Made :
              \/ \E i \in DOMAIN recvQueue[c] : recvQueue[c][i] = f
              \/ \E i \in DOMAIN sendQueue[c] : sendQueue[c][i].fiber = f

(* Run returns without an error only after every spawned fiber ran to its  *)
(* end, and no value a spawned fiber wanted to hand over is left behind in *)
(* a send queue, except the main fiber's own.  (Run, hasBlockedFibers)     *)
OkMeansSpawnedDone ==
    pc = "ok" =>
        /\ \A f \in 1 .. nfibers : state[f] = "Done"
        /\ \A c \in Made : \A i \in DOMAIN sendQueue[c] : sendQueue[c][i].fiber = Main

(* The comment "all fibers blocked" of Run's error, read for the main      *)
(* fiber too: when Run returns without an error the main fiber finished.   *)
OkMeansMainDone == pc = "ok" => state[Main] = "Done"

\* No debugger is attached, for then slices have no bound, and no synchronous
\* builtin keeps the thread of the VM for ever.
VMProceeds == ~DebuggerAttached /\ []<>(pc # "builtin")

(* No fiber starves while the VM proceeds: every ready fiber is            *)
(* dispatched, whatever instructions the others execute, because slices    *)
(* are bounded and the run queue is served in order.  (fiberQuantum, next, *)
(* enqueue)                                                                *)
ReadyRuns ==
    VMProceeds => \A f \in Fiber : state[f] = "Ready" ~> (state[f] = "Running" \/ Halted)

(* A delivered wakeup is not left in pendingWakeups while the VM proceeds: *)
(* its fiber runs.  (drainWakeups, the blocking receive in Run)            *)
WakeupConsumed ==
    VMProceeds =>
        \A f \in Fiber : (\E i \in DOMAIN pendingWakeups : pendingWakeups[i] = f)
                             ~> (state[f] = "Running" \/ Halted)

\* The capacities and the waiting senders as ChannelSpec sees them.
MadeCapacity == [c \in Chan |-> IF c \in Made THEN capacity[c] ELSE -1]
WaitingSenders == [c \in Chan |-> [i \in DOMAIN sendQueue[c] |-> sendQueue[c][i].fiber]]

Abstract == INSTANCE ChannelSpec WITH
    capacity <- MadeCapacity, senders <- WaitingSenders, receivers <- recvQueue

(* The scheduler implements the abstract channels: rings, run queue and    *)
(* stacks are hidden, what is left are the two counters and the waiters.   *)
(* (send, receive, OpMakeChannel)                                          *)
ImplementsChannels == Abstract!Spec
================================================================================
