-------------------------------- MODULE Debugger -------------------------------
(***************************************************************************)
(* A debugging session: vm/debugger.go, vm/debug_server.go, the debugger   *)
(* part of runFiber in vm/vm.go and Debug in main.go.                      *)
(*                                                                         *)
(* Three goroutines share two unbuffered Go channels: the reader (socket   *)
(* to cmdCh), the VM, and the writer (eventCh to socket).  The VM reads    *)
(* commands only while it is stopped.  Programs are arbitrary: any         *)
(* position and any call depth may come next, in any fiber.  An event or a *)
(* reply is abstracted to its kind.                                        *)
(***************************************************************************)
EXTENDS Integers, Sequences, FiniteSets

CONSTANTS Fiber,     \* fibers of the debugged program
          Main,      \* its main fiber
          File,      \* source files
          Line,      \* line numbers in use
          MaxDepth,  \* bound on vm.frameIdx()
          MaxCmds,   \* bound on the lines the client sends
          Command    \* the commands it chooses from

ASSUME DebugFibers == Main \in Fiber
ASSUME DebugBounds == MaxDepth \in Nat /\ MaxCmds \in Nat

Mode   == {"Continue", "StepLine", "StepInstruction", "StepOver", "StepOut"}
Pos    == File \X Line
NoPos  == <<"", 0>>
ASSUME NoPosIsNone == NoPos \notin Pos

\* DebugCommand: what parseCommand returns.  And the lines it makes no command
\* of: "bad", an unknown command; "malformed", a known one with a field that is
\* missing or of another type; "long", a line that the scanner has no room for.
SetMode(m)          == [kind |-> "mode", flag |-> m]
AddBreakpoint(p)    == [kind |-> "add", pos |-> p]
RemoveBreakpoint(p) == [kind |-> "remove", pos |-> p]
Query(k)            == [kind |-> k]

Answered   == {"locals", "stack", "source"}
Faulty     == {"bad", "malformed", "long"}
AllCommands ==
    {SetMode(m) : m \in Mode} \cup {AddBreakpoint(p) : p \in Pos}
        \cup {RemoveBreakpoint(p) : p \in Pos}
        \cup {Query(k) : k \in Answered \cup Faulty \cup {"callstack"}}
ASSUME DebugCommands == Command \subseteq AllCommands

None == [kind |-> "none"]

VARIABLES
    inbox,        \* lines in the socket
    reader,       \* the command the reader holds at d.cmdCh <- cmd
    writer,       \* the event the writer encodes
    outbox,       \* events that reached the client
    pc,           \* where the VM is
    event,        \* the event it holds at d.eventCh <-
    fiber,        \* vm.scheduler.current
    depth,        \* frameIdx of every fiber; 0 before it is spawned and when done
    at,           \* the position of the instruction, NoPos if it has none
    flag,         \* d.Flag
    breakpoints,  \* d.breakpoints[file]: the lines that are true
    known,        \* the files with a map in d.breakpoints
    last,         \* d.lastFile, d.lastLine
    stepFrame,    \* d.stepFrame
    sent,         \* history: the lines the client sent
    taken,        \* history: commands the VM took from cmdCh
    resumed,      \* history: fiber and depth of the last step over or out
    reported      \* history: the VM stopped at this instruction

netVars  == <<inbox, reader, writer, outbox, sent>>
progVars == <<fiber, depth, at>>
dbgVars  == <<flag, breakpoints, known, last, stepFrame>>
histVars == <<taken, resumed, reported>>
vars == <<netVars, progVars, dbgVars, histVars, pc, event>>

\* NewDebugger; the client is connected before Run starts.
Init ==
    /\ inbox = << >> /\ outbox = << >> /\ sent = << >>
    /\ reader = None
    /\ writer = "none" /\ event = "none"
    /\ pc = "fetch"
    /\ fiber = Main
    /\ depth = [f \in Fiber |-> IF f = Main THEN 1 ELSE 0]
    /\ at \in Pos \cup {NoPos}
    /\ flag = "StepLine"
    /\ breakpoints = [f \in File |-> {}]
    /\ known = {}
    /\ last = NoPos
    /\ stepFrame = 0
    /\ taken = 0
    /\ resumed = [fiber |-> Main, depth |-> 0]
    /\ reported = FALSE

\* When Run returns, or a goroutine panics, the process ends with all its
\* goroutines: the VM in "panicked", the reader in "killed".
Alive == pc \notin {"exited", "panicked", "killed"}

--------------------------------------------------------------------------------
(* The client and the two goroutines of WaitForClient.                     *)

ClientSends(c) ==
    /\ Alive
    /\ Len(sent) < MaxCmds
    /\ sent' = Append(sent, c)
    /\ inbox' = Append(inbox, c)
    /\ UNCHANGED <<reader, writer, outbox, progVars, dbgVars, histVars, pc, event>>

\* Mutant: a bad command is passed on.
MutReaderScan ==
    /\ Alive
    /\ reader = None /\ inbox # << >>
    /\ Head(inbox).kind # "long"
    /\ inbox' = Tail(inbox)
    /\ reader' = IF Head(inbox).kind = "malformed" THEN None ELSE Head(inbox)
    /\ pc' = IF Head(inbox).kind = "malformed" THEN "killed" ELSE pc
    /\ UNCHANGED <<writer, outbox, sent, progVars, dbgVars, histVars, event>>

\* scanner.Scan and parseCommand.  A bad command is logged and skipped; the
\* type assertion on a malformed one is a panic that nothing recovers; at a
\* line that is too long Scan gives up, and the reader with it.
ReaderScan ==
    /\ Alive
    /\ reader = None /\ inbox # << >>
    /\ Head(inbox).kind # "long"
    /\ inbox' = Tail(inbox)
    /\ reader' = IF Head(inbox).kind \in Faulty THEN None ELSE Head(inbox)
    /\ pc' = IF Head(inbox).kind = "malformed" THEN "killed" ELSE pc
    /\ UNCHANGED <<writer, outbox, sent, progVars, dbgVars, histVars, event>>

\* encoder.Encode
WriterEncode ==
    /\ Alive
    /\ writer # "none"
    /\ outbox' = Append(outbox, writer)
    /\ writer' = "none"
    /\ UNCHANGED <<inbox, reader, sent, progVars, dbgVars, histVars, pc, event>>

--------------------------------------------------------------------------------
(* The VM: runFiber before an instruction is executed.                     *)

\* Mutant: a breakpoint on the line of the last stop is taken for that stop.
MutShouldStop ==
    /\ at # NoPos
    /\ CASE flag = "Continue"        -> at[2] \in breakpoints[at[1]] /\ at # last
         [] flag = "StepLine"        -> at # last
         [] flag = "StepOver"        -> at # last /\ depth[fiber] <= stepFrame
         [] flag = "StepOut"         -> depth[fiber] < stepFrame
         [] flag = "StepInstruction" -> TRUE

ShouldStop ==
    /\ at # NoPos
    /\ CASE flag = "Continue"        -> at[2] \in breakpoints[at[1]]
         [] flag = "StepLine"        -> at # last
         [] flag = "StepOver"        -> at # last /\ depth[fiber] <= stepFrame
         [] flag = "StepOut"         -> depth[fiber] < stepFrame
         [] flag = "StepInstruction" -> TRUE

Fetch ==
    /\ pc = "fetch"
    /\ IF ShouldStop
       THEN /\ last' = at
            /\ event' = "stopped"
            /\ pc' = "send"
            /\ reported' = TRUE
       ELSE /\ pc' = "execute"
            /\ UNCHANGED <<last, event, reported>>
    /\ UNCHANGED <<netVars, progVars, flag, breakpoints, known, stepFrame, taken, resumed>>

\* d.eventCh <- event meets the writer's range over d.eventCh.
SendEvent ==
    /\ pc = "send"
    /\ writer = "none"
    /\ writer' = event
    /\ event' = "none"
    /\ pc' = "stopped"
    /\ UNCHANGED <<inbox, reader, outbox, sent, progVars, dbgVars, histVars>>

\* cmd := <-vm.debugger.cmdCh meets the reader.
Take(k) ==
    /\ pc = "stopped"
    /\ reader.kind = k
    /\ reader' = None
    /\ taken' = taken + 1
    /\ UNCHANGED <<inbox, writer, outbox, sent, progVars, last, reported>>

\* The modes that depend on the frame they were chosen in.
Steps(m) == m \in {"StepOver", "StepOut"}

\* Mutant: the frame of the first step is kept.
MutResume ==
    /\ Take("mode")
    /\ flag' = reader.flag
    /\ stepFrame' = IF Steps(reader.flag) /\ stepFrame = 0 THEN depth[fiber] ELSE stepFrame
    /\ resumed' = IF Steps(reader.flag) THEN [fiber |-> fiber, depth |-> depth[fiber]] ELSE resumed
    /\ pc' = "execute"
    /\ UNCHANGED <<breakpoints, known, event>>

Resume ==
    /\ Take("mode")
    /\ flag' = reader.flag
    /\ stepFrame' = IF Steps(reader.flag) THEN depth[fiber] ELSE stepFrame
    /\ resumed' = IF Steps(reader.flag) THEN [fiber |-> fiber, depth |-> depth[fiber]] ELSE resumed
    /\ pc' = "execute"
    /\ UNCHANGED <<breakpoints, known, event>>

\* Mutant: a reply takes the VM out of the stop.
MutAnswer(k) ==
    /\ Take(k)
    /\ event' = k
    /\ pc' = "execute"
    /\ UNCHANGED <<flag, breakpoints, known, stepFrame, resumed>>

\* handleGetLocals, handleGetStack, handleGetSource
Answer(k) ==
    /\ Take(k)
    /\ event' = k
    /\ pc' = "send"
    /\ UNCHANGED <<flag, breakpoints, known, stepFrame, resumed>>

\* handleGetCallStack does nothing.
GetCallStack ==
    /\ Take("callstack")
    /\ UNCHANGED <<flag, breakpoints, known, stepFrame, resumed, pc, event>>

HandleAddBreakpoint ==
    /\ Take("add")
    /\ known' = known \cup {reader.pos[1]}
    /\ breakpoints' = [breakpoints EXCEPT ![reader.pos[1]] = @ \cup {reader.pos[2]}]
    /\ UNCHANGED <<flag, stepFrame, resumed, pc, event>>

\* Mutant: all breakpoints of the file are removed.
MutHandleRemoveBreakpoint ==
    /\ Take("remove")
    /\ IF reader.pos[1] \in known
       THEN breakpoints' = [breakpoints EXCEPT ![reader.pos[1]] = {}] /\ UNCHANGED pc
       ELSE pc' = "panicked" /\ UNCHANGED breakpoints
    /\ UNCHANGED <<known, flag, stepFrame, resumed, event>>

\* A file without a map: assignment to an entry of a nil map is a panic, which
\* the recover in Debug turns into the end of the process.
HandleRemoveBreakpoint ==
    /\ Take("remove")
    /\ IF reader.pos[1] \in known
       THEN breakpoints' = [breakpoints EXCEPT ![reader.pos[1]] = @ \ {reader.pos[2]}] /\ UNCHANGED pc
       ELSE pc' = "panicked" /\ UNCHANGED breakpoints
    /\ UNCHANGED <<known, flag, stepFrame, resumed, event>>

--------------------------------------------------------------------------------
(* The VM: the instruction itself.                                         *)

\* Plain code, a call or a return.  A fiber whose last frame is gone is done.
Step ==
    /\ pc = "execute" /\ depth[fiber] > 0
    /\ \E d \in {depth[fiber] - 1, depth[fiber], depth[fiber] + 1} \cap 0 .. MaxDepth :
          /\ depth' = [depth EXCEPT ![fiber] = d]
          /\ pc' = IF d = 0 THEN "execute" ELSE "fetch"
    /\ at' \in Pos \cup {NoPos}
    /\ reported' = FALSE
    /\ UNCHANGED <<netVars, fiber, dbgVars, taken, resumed, event>>

\* OpSpawn
Spawn(f) ==
    /\ pc = "execute" /\ depth[fiber] > 0
    /\ f # Main /\ depth[f] = 0
    /\ depth' = [depth EXCEPT ![f] = 1]
    /\ pc' = "fetch"
    /\ at' \in Pos \cup {NoPos}
    /\ reported' = FALSE
    /\ UNCHANGED <<netVars, fiber, dbgVars, taken, resumed, event>>

\* The fiber blocked in this instruction, or is done, and another one goes on.
Switch(f) ==
    /\ pc = "execute"
    /\ f # fiber /\ depth[f] > 0
    /\ fiber' = f
    /\ at' \in Pos \cup {NoPos}
    /\ pc' = "fetch"
    /\ reported' = FALSE
    /\ UNCHANGED <<netVars, depth, dbgVars, taken, resumed, event>>

\* Run returns: nothing is left to run, or an error.
Exit ==
    /\ pc = "execute"
    /\ pc' = "exited"
    /\ UNCHANGED <<netVars, progVars, dbgVars, histVars, event>>

--------------------------------------------------------------------------------
Client == \E c \in Command : ClientSends(c)

Stopped ==
    \/ SendEvent \/ Resume
    \/ \E k \in Answered : Answer(k)
    \/ GetCallStack \/ HandleAddBreakpoint \/ HandleRemoveBreakpoint

Running == Fetch \/ Step \/ Exit \/ \E f \in Fiber : Spawn(f) \/ Switch(f)

Ended == ~Alive /\ UNCHANGED vars

Next == Client \/ ReaderScan \/ WriterEncode \/ Stopped \/ Running \/ Ended

Spec == Init /\ [][Next]_vars

\* Go runs every goroutine that can run.  That a write to the socket ends is
\* assumed: the client reads it, or has left.
FairSpec ==
    /\ Spec
    /\ WF_vars(ReaderScan) /\ WF_vars(WriterEncode)
    /\ WF_vars(Stopped) /\ WF_vars(Running)

--------------------------------------------------------------------------------
(* Properties                                                              *)

\* How many elements of S come up to i.
Rank(S, i) == Cardinality({j \in S : j <= i})

\* The places of the commands among the lines the client sent, and of those
\* that took effect.
Good  == {i \in DOMAIN sent : sent[i].kind \notin Faulty}
Taken == {i \in Good : Rank(Good, i) <= taken}

(* Commands take effect in the order the client gave them, none twice and  *)
(* none skipped: the lines that are enabled are those whose last command   *)
(* among the ones taken was to set them.  (the reader, cmdCh,              *)
(* handleAddBreakpoint, handleRemoveBreakpoint)                            *)
BreakpointsAsSent ==
    pc # "panicked" =>
        \A p \in Pos : p[2] \in breakpoints[p[1]] <=>
            \E i \in Taken :
                /\ sent[i] = AddBreakpoint(p)
                /\ \A j \in Taken : j > i => sent[j] # RemoveBreakpoint(p)

\* The commands the client is to see something of: an answer, or the next stop.
Visible   == {i \in Taken : sent[i].kind \in Answered \cup {"mode"}}
Effect(c) == IF c.kind = "mode" THEN "stopped" ELSE c.kind

Held(e) == IF e = "none" THEN << >> ELSE <<e>>
Stream  == outbox \o Held(writer) \o Held(event)

(* What the client sees is one stop, the answers to its questions in their *)
(* order, one stop per resume, and so on: no answer comes late, twice or   *)
(* while the program runs, and at most the event in the writer's hand, or  *)
(* in the VM's when the reader panics, is lost when the process ends.      *)
(* (runFiber, handleCommand, eventCh)                                      *)
EventStream ==
    /\ pc # "killed" =>
          Len(Stream) = Cardinality(Visible)
                          + IF pc \in {"fetch", "execute", "exited"} THEN 0 ELSE 1
    /\ Len(Stream) \in Cardinality(Visible) .. Cardinality(Visible) + 1
    /\ Stream # << >> => Stream[1] = "stopped"
    /\ \A i \in Visible :
          Rank(Visible, i) < Len(Stream) => Stream[Rank(Visible, i) + 1] = Effect(sent[i])

(* With "continue" the program never gets past an instruction on a line    *)
(* with a breakpoint without a stop there, also when it has just stopped   *)
(* on that line.  (shouldStop, DebugContinue)                              *)
NoBreakpointMissed ==
    (pc \in {"execute", "exited"} /\ depth[fiber] > 0
        /\ flag = "Continue" /\ at # NoPos /\ at[2] \in breakpoints[at[1]]) => reported

(* A step over, or out of, a function never stops deeper, or as deep, in   *)
(* the fiber where the command was given, whatever was stepped before.     *)
(* (shouldStop, stepFrame)                                                 *)
StepsLeave ==
    (pc = "send" /\ event = "stopped" /\ fiber = resumed.fiber) =>
        /\ flag = "StepOver" => depth[fiber] <= resumed.depth
        /\ flag = "StepOut" => depth[fiber] < resumed.depth

\* The commands before the first line that ends the reader.
Readable == {i \in Good : \A j \in 1 .. i : sent[j].kind \notin {"malformed", "long"}}

(* A stop is followed by what the client asks for: while the VM is stopped *)
(* a command on its way is taken, also one after unknown commands.  After  *)
(* a line that is too long nothing is promised, because the code reads     *)
(* nothing any more, and the VM stays where it is; a malformed one ends    *)
(* the process.  (the reader, parseCommand, cmdCh)                         *)
CommandsTaken ==
    (pc = "stopped" /\ Cardinality(Readable) > taken)
        ~> (pc # "stopped" \/ Cardinality(Readable) = taken)

(* Every stop and every answer gets through to the socket, unless the      *)
(* process ends first: reader, VM and writer never wait in a circle.       *)
(* (eventCh, the writer)                                                   *)
EventsArrive ==
    (event # "none" \/ writer # "none") ~> ((event = "none" /\ writer = "none") \/ ~Alive)
================================================================================
