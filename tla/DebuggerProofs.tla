----------------------------- MODULE DebuggerProofs ----------------------------
(***************************************************************************)
(* Proofs about Debugger: whatever the client sends and whatever the       *)
(* program does, for any number of lines, fibers and frames, commands take *)
(* effect once and in their order, every event answers the command it      *)
(* should, no breakpoint is passed over, and no step stops too deep.       *)
(***************************************************************************)
EXTENDS Debugger, FiniteSetTheorems, TLAPS

Event == Answered \cup {"stopped"}

\* The types the proofs need.
Types ==
    /\ sent \in Seq(Command) /\ inbox \in Seq(Command)
    /\ reader \in Command \cup {None}
    /\ taken \in Nat
    /\ pc \in {"fetch", "send", "stopped", "execute", "exited", "panicked", "killed"}
    /\ fiber \in Fiber /\ depth \in [Fiber -> Int]
    /\ at \in Pos \cup {NoPos}
    /\ breakpoints \in [File -> SUBSET Line]
    /\ event \in Event \cup {"none"} /\ writer \in Event \cup {"none"}
    /\ outbox \in Seq(Event)

\* Lines the reader is done with, and lines it has nothing to do with any more.
Scanned == Len(sent) - Len(inbox)
Passed  == IF reader = None THEN Scanned ELSE Scanned - 1

\* What is in the socket is the end of what the client sent, the reader holds
\* the line before, and all the commands before that were taken.
Queue ==
    /\ Len(inbox) <= Len(sent)
    /\ \A k \in DOMAIN inbox : inbox[k] = sent[Scanned + k]
    /\ reader # None => Scanned \in Good /\ reader = sent[Scanned]
    /\ Rank(Good, Passed) = taken

\* An event is held exactly while it is sent, and only after a stop.
AtStop ==
    /\ pc = "send" => event # "none"
    /\ event # "none" => pc \in {"send", "killed"}
    /\ pc \in {"send", "stopped"} => reported

\* The program runs because the last visible command was to resume it.
LastResumes ==
    pc \in {"fetch", "execute", "exited"} =>
        \A i \in Visible : (\A j \in Visible : j <= i) => sent[i].kind = "mode"

\* The frame of a step is the one it was asked for in.
Frame == Steps(flag) => stepFrame = resumed.depth

--------------------------------------------------------------------------------
(* Places in a finite set of numbers                                       *)

\* The rank of a number in a finite set.
LEMMA RankFacts ==
    ASSUME NEW S \in SUBSET Nat, IsFiniteSet(S), NEW i \in Int
    PROVE  /\ IsFiniteSet({j \in S : j <= i})
           /\ Rank(S, i) \in Nat /\ Rank(S, i) <= Cardinality(S)
           /\ Cardinality(S) \in Nat
<1> DEFINE T == {j \in S : j <= i}
<1>1. T \subseteq S
    OBVIOUS
<1>2. IsFiniteSet(T) /\ Cardinality(T) <= Cardinality(S)
    BY <1>1, FS_Subset
<1>3. Cardinality(T) \in Nat /\ Cardinality(S) \in Nat
    BY <1>2, FS_CardinalityType
<1> QED  BY <1>2, <1>3 DEF Rank

\* A larger number ranks at least as high; one of the set that is larger ranks
\* higher.
LEMMA RankOrder ==
    ASSUME NEW S \in SUBSET Nat, IsFiniteSet(S), NEW i \in Int, NEW k \in Int
    PROVE  /\ i <= k => Rank(S, i) <= Rank(S, k)
           /\ i < k /\ k \in S => Rank(S, i) < Rank(S, k)
<1> DEFINE A == {j \in S : j <= i}
           B == {j \in S : j <= k}
<1>1. IsFiniteSet(A) /\ IsFiniteSet(B)
    BY RankFacts
<1>2. Cardinality(A) \in Nat /\ Cardinality(B) \in Nat
    BY <1>1, FS_CardinalityType
<1>3. ASSUME i <= k
      PROVE  Cardinality(A) <= Cardinality(B)
    <2>1. ASSUME NEW j \in S, j <= i
          PROVE  j <= k
        <3>1. j \in Int
            OBVIOUS
        <3> QED  BY <3>1, <2>1, <1>3
    <2> A \subseteq B
        BY <2>1
    <2> QED  BY <1>1, FS_Subset
<1>4. ASSUME i < k, k \in S
      PROVE  Cardinality(A) < Cardinality(B)
    <2>0. ASSUME NEW j \in S, j <= i
          PROVE  j <= k
        <3>1. j \in Int
            OBVIOUS
        <3> QED  BY <3>1, <2>0, <1>4
    <2>1. A \cup {k} \subseteq B /\ k \notin A
        <3>1. k <= k /\ ~(k <= i)
            BY <1>4
        <3> QED  BY <3>1, <2>0, <1>4
    <2>2. IsFiniteSet(A \cup {k}) /\ Cardinality(A \cup {k}) = Cardinality(A) + 1
        BY <2>1, <1>1, FS_AddElement
    <2>3. Cardinality(A \cup {k}) <= Cardinality(B)
        BY <2>1, <1>1, FS_Subset
    <2> QED  BY <2>2, <2>3, <1>2
<1> QED  BY <1>3, <1>4 DEF Rank

\* The elements that rank up to that of i are those up to i.
LEMMA RankCut ==
    ASSUME NEW S \in SUBSET Nat, IsFiniteSet(S), NEW i \in Int
    PROVE  {j \in S : Rank(S, j) <= Rank(S, i)} = {j \in S : j <= i}
<1>1. ASSUME NEW j \in S, j <= i
      PROVE  Rank(S, j) <= Rank(S, i)
    BY <1>1, RankOrder
<1>2. ASSUME NEW j \in S, ~(j <= i)
      PROVE  ~(Rank(S, j) <= Rank(S, i))
    <2>1. i < j /\ j \in Int
        BY <1>2
    <2>2. Rank(S, i) < Rank(S, j)
        BY <2>1, RankOrder
    <2>3. Rank(S, i) \in Nat /\ Rank(S, j) \in Nat
        BY <2>1, RankFacts
    <2> QED  BY <2>2, <2>3
<1> QED  BY <1>1, <1>2

\* A number above all others comes last and moves none of them.
LEMMA RankAdd ==
    ASSUME NEW S \in SUBSET Nat, IsFiniteSet(S), NEW n \in Nat, \A j \in S : j < n
    PROVE  /\ IsFiniteSet(S \cup {n}) /\ S \cup {n} \in SUBSET Nat
           /\ Cardinality(S \cup {n}) = Cardinality(S) + 1
           /\ Rank(S \cup {n}, n) = Cardinality(S) + 1
           /\ \A i \in S : Rank(S \cup {n}, i) = Rank(S, i)
<1>1. n \notin S
    OBVIOUS
<1>2. IsFiniteSet(S \cup {n}) /\ Cardinality(S \cup {n}) = Cardinality(S) + 1
    BY <1>1, FS_AddElement
<1>3. {j \in S \cup {n} : j <= n} = S \cup {n}
    <2>1. ASSUME NEW j \in S \cup {n}
          PROVE  j <= n
        <3>1. j \in Int /\ (j = n \/ j < n)
            OBVIOUS
        <3> QED  BY <3>1
    <2> QED  BY <2>1
<1>4. ASSUME NEW i \in S
      PROVE  {j \in S \cup {n} : j <= i} = {j \in S : j <= i}
    OBVIOUS
<1>5. \A i \in S : Rank(S \cup {n}, i) = Rank(S, i)
    BY <1>4 DEF Rank
<1>6. Rank(S \cup {n}, n) = Cardinality(S) + 1
    BY <1>2, <1>3 DEF Rank
<1> QED  BY <1>2, <1>5, <1>6

\* The element that ranks as high as there are elements is the last one.
LEMMA RankLast ==
    ASSUME NEW S \in SUBSET Nat, IsFiniteSet(S), NEW i \in S, Rank(S, i) = Cardinality(S)
    PROVE  \A j \in S : j <= i
<1>1. SUFFICES ASSUME NEW j \in S, ~(j <= i)
               PROVE  FALSE
    OBVIOUS
<1>2. i < j /\ i \in Int /\ j \in Int
    BY <1>1
<1>3. Rank(S, i) < Rank(S, j)
    BY <1>2, RankOrder
<1>4. Rank(S, j) <= Cardinality(S) /\ Rank(S, j) \in Nat /\ Cardinality(S) \in Nat
    BY <1>2, RankFacts
<1> QED  BY <1>3, <1>4

--------------------------------------------------------------------------------
(* Commands                                                                *)

\* What a command can be told by.
LEMMA Kinds ==
    ASSUME NEW c \in Command
    PROVE  /\ c # None /\ c.kind # "none"
           /\ c.kind = "mode" => c.flag \in Mode
           /\ c.kind = "add" => \E p \in Pos : c = AddBreakpoint(p)
           /\ c.kind = "remove" => \E p \in Pos : c = RemoveBreakpoint(p)
<1>1. c \in AllCommands
    BY DebugCommands
<1>2. CASE c \in {SetMode(m) : m \in Mode}
    BY <1>2 DEF SetMode, None
<1>3. CASE c \in {AddBreakpoint(p) : p \in Pos}
    BY <1>3 DEF AddBreakpoint, None
<1>4. CASE c \in {RemoveBreakpoint(p) : p \in Pos}
    BY <1>4 DEF RemoveBreakpoint, None
<1>5. CASE c \in {Query(k) : k \in Answered \cup Faulty \cup {"callstack"}}
    BY <1>5 DEF Query, None, Answered, Faulty
<1> QED  BY <1>1, <1>2, <1>3, <1>4, <1>5 DEF AllCommands

\* Commands about breakpoints say which.
LEMMA Breakpoints ==
    ASSUME NEW p, NEW q
    PROVE  /\ AddBreakpoint(p).kind = "add" /\ RemoveBreakpoint(p).kind = "remove"
           /\ AddBreakpoint(p).pos = p /\ RemoveBreakpoint(p).pos = p
           /\ AddBreakpoint(p) = AddBreakpoint(q) => p = q
           /\ RemoveBreakpoint(p) = RemoveBreakpoint(q) => p = q
           /\ AddBreakpoint(p) # RemoveBreakpoint(q)
BY DEF AddBreakpoint, RemoveBreakpoint

--------------------------------------------------------------------------------
(* Types                                                                   *)

\* The types hold at the start.
LEMMA TypesInit == Init => Types
<1> SUFFICES ASSUME Init
             PROVE  Types
    OBVIOUS
<1>1. depth \in [Fiber -> Int]
    BY DEF Init
<1>2. breakpoints \in [File -> SUBSET Line]
    BY DEF Init
<1>3. at \in Pos \cup {NoPos}
    BY DEF Init
<1>4. sent \in Seq(Command) /\ inbox \in Seq(Command) /\ outbox \in Seq(Event)
    BY DEF Init
<1> QED  BY <1>1, <1>2, <1>3, <1>4, DebugFibers DEF Init, Types, Event

\* What a command changes has its type.
LEMMA TakeTypes ==
    ASSUME Types, NEW k, Take(k)
    PROVE  /\ reader' \in Command \cup {None} /\ taken' \in Nat
           /\ UNCHANGED <<sent, inbox, fiber, depth, at, writer, outbox>>
BY DEF Take, Types, progVars

\* Types are kept while the VM is stopped.
LEMMA StoppedTypes ==
    ASSUME Types, Stopped
    PROVE  Types'
<1>1. CASE SendEvent
    BY <1>1 DEF SendEvent, Types, progVars, dbgVars, histVars
<1>2. CASE Resume
    <2>1. Take("mode") /\ UNCHANGED <<breakpoints, event>> /\ pc' = "execute"
        BY <1>2 DEF Resume
    <2> QED  BY <2>1, TakeTypes DEF Types
<1>3. ASSUME NEW k \in Answered, Answer(k)
      PROVE  Types'
    <2>1. Take(k) /\ UNCHANGED breakpoints /\ pc' = "send" /\ event' = k
        BY <1>3 DEF Answer
    <2> QED  BY <2>1, TakeTypes DEF Types, Event
<1>4. CASE GetCallStack
    <2>1. Take("callstack") /\ UNCHANGED <<breakpoints, event, pc>>
        BY <1>4 DEF GetCallStack
    <2> QED  BY <2>1, TakeTypes DEF Types
<1>5. ASSUME NEW p \in Pos, reader = AddBreakpoint(p) \/ reader = RemoveBreakpoint(p)
      PROVE  reader.pos = p /\ p[1] \in File /\ p[2] \in Line
    BY <1>5, Breakpoints DEF Pos
<1>6. CASE HandleAddBreakpoint
    <2>1. Take("add") /\ UNCHANGED <<event, pc>>
          /\ breakpoints' = [breakpoints EXCEPT ![reader.pos[1]] = @ \cup {reader.pos[2]}]
        BY <1>6 DEF HandleAddBreakpoint
    <2>2. reader \in Command /\ reader.kind = "add"
        BY <2>1 DEF Take, Types, None
    <2>3. PICK p \in Pos : reader = AddBreakpoint(p)
        BY <2>2, Kinds
    <2>4. breakpoints' \in [File -> SUBSET Line]
        BY <2>1, <2>3, <1>5 DEF Types
    <2> QED  BY <2>1, <2>4, TakeTypes DEF Types
<1>7. CASE HandleRemoveBreakpoint
    <2>1. /\ Take("remove") /\ UNCHANGED event
          /\ \/ UNCHANGED pc
                /\ breakpoints' = [breakpoints EXCEPT ![reader.pos[1]] = @ \ {reader.pos[2]}]
             \/ pc' = "panicked" /\ UNCHANGED breakpoints
        BY <1>7 DEF HandleRemoveBreakpoint
    <2>2. reader \in Command /\ reader.kind = "remove"
        BY <2>1 DEF Take, Types, None
    <2>3. PICK p \in Pos : reader = RemoveBreakpoint(p)
        BY <2>2, Kinds
    <2>4. breakpoints' \in [File -> SUBSET Line]
        BY <2>1, <2>3, <1>5 DEF Types
    <2> QED  BY <2>1, <2>4, TakeTypes DEF Types
<1> QED  BY <1>1, <1>2, <1>3, <1>4, <1>6, <1>7 DEF Stopped

\* Types are kept while the program runs.
LEMMA RunningTypes ==
    ASSUME Types, Running
    PROVE  Types'
<1>1. CASE Fetch
    BY <1>1 DEF Fetch, Types, Event, netVars, progVars
<1>2. CASE Step
    <2>1. /\ pc' \in {"execute", "fetch"} /\ at' \in Pos \cup {NoPos}
          /\ UNCHANGED <<sent, inbox, reader, taken, fiber, breakpoints, event, writer, outbox>>
        BY <1>2 DEF Step, netVars, dbgVars
    <2>2. depth' \in [Fiber -> Int]
        BY <1>2, DebugBounds DEF Step, Types
    <2> QED  BY <2>1, <2>2 DEF Types
<1>3. CASE Exit
    BY <1>3 DEF Exit, Types, netVars, progVars, dbgVars, histVars
<1>4. ASSUME NEW f \in Fiber, Spawn(f)
      PROVE  Types'
    <2>1. /\ pc' = "fetch" /\ at' \in Pos \cup {NoPos}
          /\ UNCHANGED <<sent, inbox, reader, taken, fiber, breakpoints, event, writer, outbox>>
        BY <1>4 DEF Spawn, netVars, dbgVars
    <2>2. depth' \in [Fiber -> Int]
        BY <1>4 DEF Spawn, Types
    <2> QED  BY <2>1, <2>2 DEF Types
<1>5. ASSUME NEW f \in Fiber, Switch(f)
      PROVE  Types'
    <2>1. /\ pc' = "fetch" /\ at' \in Pos \cup {NoPos} /\ fiber' = f
          /\ UNCHANGED <<sent, inbox, reader, taken, depth, breakpoints, event, writer, outbox>>
        BY <1>5 DEF Switch, netVars, dbgVars
    <2> QED  BY <2>1 DEF Types
<1> QED  BY <1>1, <1>2, <1>3, <1>4, <1>5 DEF Running

\* Every step keeps the types.
LEMMA TypesNext == Types /\ [Next]_vars => Types'
<1> SUFFICES ASSUME Types, [Next]_vars
             PROVE  Types'
    OBVIOUS
<1>1. CASE Client
    BY <1>1 DEF Client, ClientSends, Types, progVars, dbgVars, histVars
<1>2. CASE ReaderScan
    <2>1. /\ UNCHANGED <<sent, taken, fiber, depth, at, breakpoints, event, writer, outbox>>
          /\ pc' = pc \/ pc' = "killed"
          /\ inbox' = Tail(inbox) /\ inbox # << >>
          /\ reader' = Head(inbox) \/ reader' = None
        BY <1>2 DEF ReaderScan, progVars, dbgVars, histVars
    <2>2. inbox' \in Seq(Command) /\ reader' \in Command \cup {None}
        BY <2>1 DEF Types
    <2> QED  BY <2>1, <2>2 DEF Types
<1>3. CASE WriterEncode
    <2>1. /\ UNCHANGED <<sent, inbox, reader, taken, pc, fiber, depth, at, breakpoints, event>>
          /\ outbox' = Append(outbox, writer) /\ writer' = "none" /\ writer # "none"
        BY <1>3 DEF WriterEncode, progVars, dbgVars, histVars
    <2>2. outbox' \in Seq(Event)
        BY <2>1 DEF Types
    <2> QED  BY <2>1, <2>2 DEF Types
<1>4. CASE UNCHANGED vars
    BY <1>4 DEF Types, vars, netVars, progVars, dbgVars, histVars
<1> QED  BY <1>1, <1>2, <1>3, <1>4, StoppedTypes, RunningTypes DEF Next, Ended

\* Types, at all times.
LEMMA TypesCorrect == Spec => []Types
BY TypesInit, TypesNext, PTL DEF Spec

--------------------------------------------------------------------------------
(* The lines between the client and the VM                                 *)

\* The places of commands are a finite set of numbers.
LEMMA GoodFacts ==
    ASSUME Types
    PROVE  /\ Good \in SUBSET Nat /\ IsFiniteSet(Good)
           /\ \A i \in Good : i \in 1 .. Len(sent) /\ sent[i] \in Command /\ sent[i].kind \notin Faulty
<1>1. Len(sent) \in Nat /\ DOMAIN sent = 1 .. Len(sent)
    BY DEF Types
<1>2. Good \subseteq 1 .. Len(sent)
    BY <1>1 DEF Good
<1>3. IsFiniteSet(Good)
    <2>1. IsFiniteSet(1 .. Len(sent))
        BY <1>1, FS_Interval
    <2> QED  BY <2>1, <1>2, FS_Subset
<1>4. \A i \in Good : sent[i] \in Command /\ sent[i].kind \notin Faulty
    BY <1>1 DEF Good, Types
<1> QED  BY <1>1, <1>2, <1>3, <1>4

\* The numbers of lines.
LEMMA Lengths ==
    ASSUME Types, Queue
    PROVE  /\ Len(sent) \in Nat /\ Len(inbox) \in Nat
           /\ Scanned \in Nat /\ Scanned <= Len(sent) /\ Passed \in Nat /\ Passed <= Scanned
<1>1. Len(sent) \in Nat /\ Len(inbox) \in Nat
    BY DEF Types
<1>2. Scanned \in Nat /\ Scanned <= Len(sent)
    BY <1>1 DEF Queue, Scanned
<1>3. reader # None => Scanned >= 1
    BY GoodFacts DEF Queue
<1> QED  BY <1>1, <1>2, <1>3 DEF Passed

\* The commands taken are those the reader has passed.
LEMMA TakenIs ==
    Types /\ Queue => Taken = {i \in Good : i <= Passed}
<1> SUFFICES ASSUME Types, Queue
             PROVE  Taken = {i \in Good : i <= Passed}
    OBVIOUS
<1>1. Passed \in Int /\ Good \in SUBSET Nat /\ IsFiniteSet(Good)
    BY Lengths, GoodFacts
<1>2. {i \in Good : Rank(Good, i) <= Rank(Good, Passed)} = {i \in Good : i <= Passed}
    BY <1>1, RankCut
<1> QED  BY <1>2 DEF Taken, Queue

\* The same after a step.
LEMMA TakenIsNext ==
    Types' /\ Queue' => Taken' = {i \in Good' : i <= Passed'}
<1>1. (Types /\ Queue => Taken = {i \in Good : i <= Passed})'
    BY TakenIs, PTL
<1> QED  BY <1>1

\* A step that takes no command and leaves the lines sent before alone.
Kept == Taken' = Taken /\ \A i \in Taken : sent'[i] = sent[i]

\* The client sends a line.
LEMMA SendQueue ==
    ASSUME Types, Types', Queue, NEW c \in Command, ClientSends(c)
    PROVE  Queue' /\ Kept
<1>1. /\ sent' = Append(sent, c) /\ inbox' = Append(inbox, c)
      /\ reader' = reader /\ taken' = taken
    BY DEF ClientSends, histVars
<1> PICK n \in Nat : n = Len(sent)
    BY DEF Types
<1> PICK m \in Nat : m = Len(inbox)
    BY DEF Types
<1>2. /\ Len(sent') = n + 1 /\ Len(inbox') = m + 1
      /\ DOMAIN sent = 1 .. n /\ DOMAIN sent' = 1 .. n + 1
      /\ DOMAIN inbox = 1 .. m /\ DOMAIN inbox' = 1 .. m + 1
    BY <1>1 DEF Types
<1>3. /\ \A i \in 1 .. n : sent'[i] = sent[i]
      /\ sent'[n + 1] = c
    BY <1>1 DEF Types
<1>4. /\ \A k \in 1 .. m : inbox'[k] = inbox[k]
      /\ inbox'[m + 1] = c
    BY <1>1 DEF Types
<1>5. m <= n /\ Scanned = n - m /\ Scanned' = n - m
    BY <1>2 DEF Queue, Scanned
<1>6. Passed' = Passed /\ Passed \in Nat /\ Passed <= n
    BY <1>1, <1>5, Lengths DEF Passed
<1>7. \A i \in 1 .. n : i \in Good' <=> i \in Good
    BY <1>2, <1>3 DEF Good
<1>8. Good \subseteq 1 .. n /\ Good' \subseteq 1 .. n + 1
    BY <1>2 DEF Good
<1>9. {i \in Good' : i <= Passed} = {i \in Good : i <= Passed}
    <2>1. ASSUME NEW i \in Good', i <= Passed
          PROVE  i \in 1 .. n
        <3>1. i \in Int /\ 1 <= i
            BY <1>8
        <3> QED  BY <3>1, <2>1, <1>6
    <2> QED  BY <2>1, <1>7, <1>8
<1>10. ASSUME NEW k \in 1 .. m + 1
       PROVE  inbox'[k] = sent'[(n - m) + k]
    <2>1. CASE k = m + 1
        <3>1. (n - m) + k = n + 1
            BY <2>1
        <3> QED  BY <3>1, <2>1, <1>3, <1>4
    <2>2. CASE k # m + 1
        <3>1. k \in 1 .. m /\ (n - m) + k \in 1 .. n
            BY <2>2, <1>5
        <3>2. inbox[k] = sent[(n - m) + k]
            BY <3>1, <1>2, <1>5 DEF Queue
        <3> QED  BY <3>1, <3>2, <1>3, <1>4
    <2> QED  BY <2>1, <2>2
<1>11. Rank(Good', Passed) = Rank(Good, Passed)
    BY <1>9 DEF Rank
<1>12. reader # None => (n - m) \in Good' /\ reader = sent'[n - m]
    <2> SUFFICES ASSUME reader # None
                 PROVE  (n - m) \in Good' /\ reader = sent'[n - m]
        OBVIOUS
    <2>1. n - m \in Good /\ reader = sent[n - m]
        BY <1>5 DEF Queue
    <2> QED  BY <2>1, <1>3, <1>7, <1>8
<1>13. Queue'
    <2>1. Len(inbox') <= Len(sent')
        BY <1>2, <1>5
    <2>2. \A k \in DOMAIN inbox' : inbox'[k] = sent'[Scanned' + k]
        BY <1>2, <1>5, <1>10
    <2>3. reader' # None => Scanned' \in Good' /\ reader' = sent'[Scanned']
        BY <1>1, <1>5, <1>12
    <2>4. Rank(Good', Passed') = taken'
        BY <1>1, <1>6, <1>11 DEF Queue
    <2> QED  BY <2>1, <2>2, <2>3, <2>4 DEF Queue, Rank
<1>14. Taken' = Taken
    BY <1>6, <1>9, <1>13, TakenIs, TakenIsNext
<1> QED  BY <1>3, <1>8, <1>13, <1>14 DEF Kept, Taken

\* The reader takes a line from the socket, and drops it if it is no command.
LEMMA ScanQueue ==
    ASSUME Types, Types', Queue, ReaderScan
    PROVE  Queue' /\ Kept
<1>1. /\ sent' = sent /\ inbox' = Tail(inbox) /\ inbox # << >>
      /\ reader = None /\ taken' = taken
      /\ reader' = IF Head(inbox).kind \in Faulty THEN None ELSE Head(inbox)
    BY DEF ReaderScan, histVars
<1> PICK n \in Nat : n = Len(sent)
    BY DEF Types
<1> PICK m \in Nat : m = Len(inbox)
    BY DEF Types
<1>2. m >= 1 /\ Len(inbox') = m - 1 /\ DOMAIN inbox = 1 .. m /\ DOMAIN inbox' = 1 .. m - 1
    BY <1>1 DEF Types
<1>3. /\ Head(inbox) = inbox[1] /\ Head(inbox) \in Command
      /\ \A k \in 1 .. m - 1 : inbox'[k] = inbox[k + 1]
    BY <1>1 DEF Types
<1>4. m <= n /\ Scanned = n - m /\ Scanned' = n - m + 1 /\ Passed = n - m
    BY <1>1, <1>2 DEF Queue, Scanned, Passed
<1>5. inbox[1] = sent[n - m + 1]
    BY <1>2, <1>4 DEF Queue
<1>6. DOMAIN sent = 1 .. n /\ Good' = Good
    BY <1>1 DEF Good, Types
<1>7. n - m + 1 \in Good <=> Head(inbox).kind \notin Faulty
    <2>1. n - m + 1 \in DOMAIN sent
        BY <1>2, <1>4, <1>6
    <2> QED  BY <2>1, <1>3, <1>5 DEF Good
<1>8. {i \in Good : i <= Passed'} = {i \in Good : i <= Passed}
    <2>1. CASE Head(inbox).kind \in Faulty
        <3>1. Passed' = n - m + 1
            BY <2>1, <1>1, <1>4 DEF Passed
        <3>2. ASSUME NEW i \in Good
              PROVE  i <= n - m + 1 <=> i <= n - m
            <4>1. i # n - m + 1
                BY <2>1, <1>7
            <4>2. i \in Nat
                BY GoodFacts
            <4> QED  BY <4>1, <4>2
        <3> QED  BY <3>1, <3>2, <1>4
    <2>2. CASE Head(inbox).kind \notin Faulty
        <3>1. reader' # None
            BY <2>2, <1>1, <1>3, Kinds
        <3>2. Passed' = Passed
            BY <3>1, <1>4 DEF Passed
        <3> QED  BY <3>2
    <2> QED  BY <2>1, <2>2
<1>9. Queue'
    <2>1. Len(inbox') <= Len(sent')
        BY <1>1, <1>2, <1>4
    <2>2. ASSUME NEW k \in DOMAIN inbox'
          PROVE  inbox'[k] = sent'[Scanned' + k]
        <3>1. k \in 1 .. m - 1 /\ k + 1 \in 1 .. m /\ Scanned' + k = (n - m) + (k + 1)
            BY <1>2, <1>4
        <3>2. inbox[k + 1] = sent[(n - m) + (k + 1)]
            BY <3>1, <1>2, <1>4 DEF Queue
        <3> QED  BY <3>1, <3>2, <1>1, <1>3
    <2>3. reader' # None => Scanned' \in Good' /\ reader' = sent'[Scanned']
        BY <1>1, <1>3, <1>4, <1>5, <1>6, <1>7
    <2>4. Rank(Good', Passed') = taken'
        BY <1>1, <1>6, <1>8 DEF Queue, Rank
    <2> QED  BY <2>1, <2>2, <2>3, <2>4 DEF Queue, Rank
<1>10. Taken' = Taken
    BY <1>6, <1>8, <1>9, TakenIs, TakenIsNext
<1> QED  BY <1>1, <1>9, <1>10 DEF Kept

\* The lines, the reader and the count of commands are left alone.
LEMMA SameQueue ==
    ASSUME Types, Queue, UNCHANGED <<sent, inbox, reader, taken>>
    PROVE  Queue' /\ Kept
BY DEF Queue, Kept, Taken, Good, Rank, Scanned, Passed

\* The VM takes a command: it is the next one after those taken before.
LEMMA TakeQueue ==
    ASSUME Types, Types', Queue, NEW k, k # "none", Take(k)
    PROVE  /\ Queue' /\ sent' = sent
           /\ reader \in Command /\ reader.kind = k
           /\ Scanned \in Nat /\ reader = sent[Scanned]
           /\ \A i \in Taken : i < Scanned
           /\ Taken' = Taken \cup {Scanned}
<1>1. /\ reader.kind = k /\ reader' = None /\ taken' = taken + 1
      /\ sent' = sent /\ inbox' = inbox
    BY DEF Take
<1>2. reader # None /\ reader \in Command
    BY <1>1 DEF None, Types
<1> PICK n : n = Scanned
    OBVIOUS
<1>3. n \in Good /\ reader = sent[n] /\ n \in Nat
    BY <1>2, Lengths DEF Queue
<1>4. Passed = n - 1 /\ Scanned' = n /\ Passed' = n /\ Good' = Good
    BY <1>1, <1>2 DEF Passed, Scanned, Good
<1>5. {i \in Good : i <= n} = {i \in Good : i <= n - 1} \cup {n}
    <2>1. ASSUME NEW i \in Good
          PROVE  i <= n <=> (i <= n - 1 \/ i = n)
        <3>1. i \in Nat
            BY GoodFacts
        <3> QED  BY <3>1, <1>3
    <2> QED  BY <2>1, <1>3
<1>6. Rank(Good, n) = Rank(Good, n - 1) + 1
    <2>1. IsFiniteSet({i \in Good : i <= n - 1})
        <3>1. n - 1 \in Int
            BY <1>3
        <3> QED  BY <3>1, GoodFacts, RankFacts
    <2>2. n \notin {i \in Good : i <= n - 1}
        BY <1>3
    <2> QED  BY <2>1, <2>2, <1>5, FS_AddElement DEF Rank
<1>7. Queue'
    <2>1. Rank(Good', Passed') = taken'
        BY <1>1, <1>4, <1>6 DEF Queue
    <2> QED  BY <2>1, <1>1, <1>4 DEF Queue, Rank
<1>8. Taken = {i \in Good : i <= n - 1} /\ Taken' = {i \in Good : i <= n}
    BY <1>4, <1>7, TakenIs, TakenIsNext
<1>9. \A i \in Taken : i < n
    <2> SUFFICES ASSUME NEW i \in Taken
                 PROVE  i < n
        OBVIOUS
    <2>1. i \in Nat /\ i <= n - 1
        BY <1>8, GoodFacts
    <2> QED  BY <2>1, <1>3
<1> QED  BY <1>1, <1>2, <1>3, <1>5, <1>7, <1>8, <1>9

--------------------------------------------------------------------------------
(* Stops                                                                   *)

\* What the VM does about stops, breakpoints and frames.
StopInv == AtStop /\ Frame /\ NoBreakpointMissed /\ StepsLeave

\* The VM looks at the next instruction.
LEMMA FetchStops ==
    ASSUME Types, StopInv, Fetch
    PROVE  StopInv'
<1>1. /\ pc = "fetch"
      /\ UNCHANGED <<fiber, depth, at, flag, breakpoints, stepFrame, resumed>>
    BY DEF Fetch, progVars
<1>2. CASE ShouldStop
    <2>1. event' = "stopped" /\ pc' = "send" /\ reported'
        BY <1>2 DEF Fetch
    <2>2. flag = "StepOver" => depth[fiber] <= stepFrame
        BY <1>2 DEF ShouldStop
    <2>3. flag = "StepOut" => depth[fiber] < stepFrame
        BY <1>2 DEF ShouldStop
    <2>4. StepsLeave'
        BY <1>1, <2>2, <2>3 DEF StopInv, Frame, Steps, StepsLeave
    <2> QED
        BY <1>1, <2>1, <2>4 DEF StopInv, AtStop, Frame, Steps, NoBreakpointMissed
<1>3. CASE ~ShouldStop
    <2>1. event' = event /\ pc' = "execute" /\ reported' = reported
        BY <1>3 DEF Fetch
    <2>2. flag = "Continue" /\ at # NoPos => at[2] \notin breakpoints[at[1]]
        BY <1>3 DEF ShouldStop
    <2> QED
        BY <1>1, <2>1, <2>2 DEF StopInv, AtStop, Frame, Steps, NoBreakpointMissed, StepsLeave
<1> QED  BY <1>2, <1>3

\* The VM executes an instruction, or goes on with another fiber.
LEMMA ExecuteStops ==
    ASSUME Types, StopInv, Step \/ Exit \/ \E f \in Fiber : Spawn(f) \/ Switch(f)
    PROVE  StopInv'
<1>1. CASE Exit
    BY <1>1 DEF Exit, StopInv, AtStop, Frame, Steps, NoBreakpointMissed, StepsLeave,
                progVars, dbgVars, histVars
<1>2. CASE Step
    <2>1. /\ pc = "execute" /\ pc' \in {"execute", "fetch"}
          /\ pc' = "execute" => depth'[fiber] = 0
          /\ UNCHANGED <<fiber, flag, stepFrame, resumed, event>>
        BY <1>2 DEF Step, Types, dbgVars
    <2> QED
        BY <2>1 DEF StopInv, AtStop, Frame, Steps, NoBreakpointMissed, StepsLeave
<1>3. ASSUME NEW f \in Fiber, Spawn(f) \/ Switch(f)
      PROVE  StopInv'
    <2>1. pc = "execute" /\ pc' = "fetch" /\ UNCHANGED <<flag, stepFrame, resumed, event>>
        BY <1>3 DEF Spawn, Switch, dbgVars
    <2> QED
        BY <2>1 DEF StopInv, AtStop, Frame, Steps, NoBreakpointMissed, StepsLeave
<1> QED  BY <1>1, <1>2, <1>3

\* The VM sends an event or obeys a command.
LEMMA StoppedStops ==
    ASSUME Types, StopInv, Stopped
    PROVE  StopInv'
<1>1. CASE SendEvent
    BY <1>1 DEF SendEvent, StopInv, AtStop, Frame, Steps, NoBreakpointMissed, StepsLeave,
                progVars, dbgVars, histVars
<1>2. CASE Resume
    <2>1. pc = "stopped" /\ pc' = "execute" /\ UNCHANGED <<reported, event>>
        BY <1>2 DEF Resume, Take
    <2>2. Frame'
        <3>1. flag' = reader.flag
              /\ stepFrame' = (IF Steps(flag') THEN depth[fiber] ELSE stepFrame)
              /\ resumed' = (IF Steps(flag') THEN [fiber |-> fiber, depth |-> depth[fiber]]
                                             ELSE resumed)
            BY <1>2 DEF Resume
        <3>2. CASE Steps(flag')
            BY <3>1, <3>2 DEF Frame
        <3>3. CASE ~Steps(flag')
            BY <3>3 DEF Frame, Steps
        <3> QED  BY <3>2, <3>3
    <2> QED
        BY <2>1, <2>2 DEF StopInv, AtStop, NoBreakpointMissed, StepsLeave
<1>3. ASSUME NEW k \in Answered, Answer(k)
      PROVE  StopInv'
    <2>1. /\ pc = "stopped" /\ pc' = "send" /\ event' = k
          /\ UNCHANGED <<reported, flag, stepFrame, resumed>>
        BY <1>3 DEF Answer, Take
    <2>2. k # "stopped" /\ k # "none"
        BY DEF Answered
    <2> QED
        BY <2>1, <2>2 DEF StopInv, AtStop, Frame, Steps, NoBreakpointMissed, StepsLeave
<1>4. CASE GetCallStack \/ HandleAddBreakpoint \/ HandleRemoveBreakpoint
    <2>1. /\ pc = "stopped" /\ pc' \in {"stopped", "panicked"}
          /\ UNCHANGED <<event, reported, flag, stepFrame, resumed>>
        BY <1>4 DEF GetCallStack, HandleAddBreakpoint, HandleRemoveBreakpoint, Take
    <2> QED
        BY <2>1 DEF StopInv, AtStop, Frame, Steps, NoBreakpointMissed, StepsLeave
<1> QED  BY <1>1, <1>2, <1>3, <1>4 DEF Stopped

\* Every step keeps what is known about stops.
LEMMA StopNext == Types /\ StopInv /\ [Next]_vars => StopInv'
<1> SUFFICES ASSUME Types, StopInv, [Next]_vars
             PROVE  StopInv'
    OBVIOUS
<1>1. CASE UNCHANGED <<fiber, depth, at, flag, breakpoints, stepFrame, resumed, reported, pc, event>>
    BY <1>1 DEF StopInv, AtStop, Frame, Steps, NoBreakpointMissed, StepsLeave
<1>2. CASE Client \/ WriterEncode \/ Ended \/ UNCHANGED vars
    BY <1>1, <1>2 DEF Client, ClientSends, WriterEncode, Ended, vars, netVars,
                      progVars, dbgVars, histVars
<1>4. CASE ReaderScan
    <2>1. /\ UNCHANGED <<fiber, depth, at, flag, breakpoints, stepFrame, resumed, reported, event>>
          /\ pc' = pc \/ pc' = "killed"
        BY <1>4 DEF ReaderScan, progVars, dbgVars, histVars
    <2>2. CASE pc' = "killed"
        BY <2>1, <2>2 DEF StopInv, AtStop, Frame, Steps, NoBreakpointMissed, StepsLeave
    <2> QED  BY <1>1, <2>1, <2>2
<1>3. CASE Running
    BY <1>3, FetchStops, ExecuteStops DEF Running
<1> QED  BY <1>2, <1>3, <1>4, StoppedStops DEF Next

(* With "continue", the VM never executes an instruction on a line with a  *)
(* breakpoint without having stopped at it.  (shouldStop)                  *)
THEOREM NoBreakpointPassed == Spec => []NoBreakpointMissed
<1>1. Init => StopInv
    BY DEF Init, StopInv, AtStop, Frame, Steps, NoBreakpointMissed, StepsLeave
<1>2. StopInv => NoBreakpointMissed
    BY DEF StopInv
<1> QED  BY <1>1, <1>2, StopNext, TypesCorrect, PTL DEF Spec

(* A step over or out of a function stops where it should, however often   *)
(* the client stepped before.  (shouldStop, d.stepFrame)                   *)
THEOREM StepsStopOutside == Spec => []StepsLeave
<1>1. Init => StopInv
    BY DEF Init, StopInv, AtStop, Frame, Steps, NoBreakpointMissed, StepsLeave
<1>2. StopInv => StepsLeave
    BY DEF StopInv
<1> QED  BY <1>1, <1>2, StopNext, TypesCorrect, PTL DEF Spec

--------------------------------------------------------------------------------
(* Breakpoints                                                             *)

\* No command is taken and no breakpoint changes.
LEMMA KeptBreakpoints ==
    ASSUME BreakpointsAsSent, Kept, breakpoints' = breakpoints,
           pc = "panicked" => pc' = "panicked"
    PROVE  BreakpointsAsSent'
BY DEF BreakpointsAsSent, Kept

\* A command is taken that is not about breakpoints.
LEMMA OtherBreakpoints ==
    ASSUME BreakpointsAsSent, breakpoints' = breakpoints, pc # "panicked",
           sent' = sent, NEW n, Taken' = Taken \cup {n},
           sent[n].kind \notin {"add", "remove"}
    PROVE  BreakpointsAsSent'
<1>1. \A p : sent[n] # AddBreakpoint(p) /\ sent[n] # RemoveBreakpoint(p)
    BY Breakpoints
<1> QED  BY <1>1 DEF BreakpointsAsSent

\* handleAddBreakpoint
LEMMA AddBreakpoints ==
    ASSUME Types, BreakpointsAsSent, pc # "panicked",
           sent' = sent, NEW n \in Nat, Taken' = Taken \cup {n}, \A i \in Taken : i < n,
           NEW p \in Pos, sent[n] = AddBreakpoint(p),
           breakpoints' = [breakpoints EXCEPT ![p[1]] = @ \cup {p[2]}]
    PROVE  BreakpointsAsSent'
<1>1. ASSUME NEW q \in Pos
      PROVE  (q[2] \in breakpoints[q[1]])' <=> q[2] \in breakpoints[q[1]] \/ q = p
    BY SMTT(40) DEF Types, Pos
<1>2. ASSUME NEW q \in Pos
      PROVE  (q[2] \in breakpoints[q[1]])' <=>
               \E i \in Taken' : sent'[i] = AddBreakpoint(q)
                   /\ \A j \in Taken' : j > i => sent'[j] # RemoveBreakpoint(q)
    <2>1. sent[n] # RemoveBreakpoint(q) /\ (sent[n] = AddBreakpoint(q) <=> q = p)
        BY Breakpoints
    <2>2. q[2] \in breakpoints[q[1]] <=>
               \E i \in Taken : sent[i] = AddBreakpoint(q)
                   /\ \A j \in Taken : j > i => sent[j] # RemoveBreakpoint(q)
        BY DEF BreakpointsAsSent
    <2>3. CASE q = p
        <3>1. \A j \in Taken' : ~(j > n)
            <4> SUFFICES ASSUME NEW j \in Taken', j > n
                         PROVE  FALSE
                OBVIOUS
            <4>1. j # n
                OBVIOUS
            <4>2. j \in Taken /\ j < n
                BY <4>1
            <4>3. j \in Int
                BY <4>2, GoodFacts DEF Taken
            <4> QED  BY <4>2, <4>3
        <3>2. sent'[n] = AddBreakpoint(q) /\ n \in Taken'
            BY <2>3
        <3> QED  BY <3>1, <3>2, <1>1, <2>3
    <2>4. CASE q # p
        BY <1>1, <2>1, <2>2, <2>4
    <2> QED  BY <2>3, <2>4
<1> QED  BY <1>2 DEF BreakpointsAsSent

\* handleRemoveBreakpoint
LEMMA RemoveBreakpoints ==
    ASSUME Types, BreakpointsAsSent, pc # "panicked",
           sent' = sent, NEW n \in Nat, Taken' = Taken \cup {n}, \A i \in Taken : i < n,
           NEW p \in Pos, sent[n] = RemoveBreakpoint(p),
           breakpoints' = [breakpoints EXCEPT ![p[1]] = @ \ {p[2]}]
    PROVE  BreakpointsAsSent'
<1>1. ASSUME NEW q \in Pos
      PROVE  (q[2] \in breakpoints[q[1]])' <=> q[2] \in breakpoints[q[1]] /\ q # p
    <2>1. q[1] \in File /\ p[1] \in File /\ (q = p <=> q[1] = p[1] /\ q[2] = p[2])
        BY DEF Pos
    <2>2. breakpoints'[q[1]] = IF q[1] = p[1] THEN breakpoints[p[1]] \ {p[2]} ELSE breakpoints[q[1]]
        BY <2>1 DEF Types
    <2> QED  BY <2>1, <2>2
<1>2. ASSUME NEW q \in Pos
      PROVE  (q[2] \in breakpoints[q[1]])' <=>
               \E i \in Taken' : sent'[i] = AddBreakpoint(q)
                   /\ \A j \in Taken' : j > i => sent'[j] # RemoveBreakpoint(q)
    <2>1. sent[n] # AddBreakpoint(q) /\ (sent[n] = RemoveBreakpoint(q) <=> q = p)
        BY Breakpoints
    <2>2. q[2] \in breakpoints[q[1]] <=>
               \E i \in Taken : sent[i] = AddBreakpoint(q)
                   /\ \A j \in Taken : j > i => sent[j] # RemoveBreakpoint(q)
        BY DEF BreakpointsAsSent
    <2>3. CASE q = p
        <3>1. ASSUME NEW i \in Taken', sent'[i] = AddBreakpoint(q)
              PROVE  n \in Taken' /\ n > i /\ sent'[n] = RemoveBreakpoint(q)
            <4>1. i \in Taken
                BY <2>1, <3>1
            <4>2. i < n
                BY <4>1
            <4>3. n > i
                BY <4>2
            <4> QED  BY <4>3, <2>3
        <3> QED  BY <3>1, <1>1, <2>3
    <2>4. CASE q # p
        BY <1>1, <2>1, <2>2, <2>4
    <2> QED  BY <2>3, <2>4
<1> QED  BY <1>2 DEF BreakpointsAsSent

\* Every step keeps the queue and the breakpoints in line with what was sent.
LEMMA BreakpointsNext ==
    Types /\ Types' /\ Queue /\ BreakpointsAsSent /\ [Next]_vars => Queue' /\ BreakpointsAsSent'
<1> SUFFICES ASSUME Types, Types', Queue, BreakpointsAsSent, [Next]_vars
             PROVE  Queue' /\ BreakpointsAsSent'
    OBVIOUS
<1>1. CASE Client
    <2> PICK c \in Command : ClientSends(c)
        BY <1>1 DEF Client
    <2>1. UNCHANGED <<breakpoints, pc>>
        BY DEF ClientSends, dbgVars
    <2> QED  BY <2>1, SendQueue, KeptBreakpoints
<1>2. CASE ReaderScan
    <2>1. breakpoints' = breakpoints /\ pc # "panicked"
        BY <1>2 DEF ReaderScan, Alive, dbgVars
    <2> QED  BY <1>2, <2>1, ScanQueue, KeptBreakpoints
<1>3. CASE WriterEncode \/ SendEvent \/ Running \/ Ended \/ UNCHANGED vars
    <2>1. /\ UNCHANGED <<sent, inbox, reader, taken, breakpoints>>
          /\ pc = "panicked" => pc' = "panicked"
        BY <1>3 DEF WriterEncode, SendEvent, Running, Fetch, Step, Exit, Spawn, Switch, Ended,
                    vars, netVars, dbgVars, histVars
    <2> QED  BY <2>1, SameQueue, KeptBreakpoints
<1>4. ASSUME NEW k \in {"mode", "callstack"} \cup Answered, Take(k), breakpoints' = breakpoints
      PROVE  Queue' /\ BreakpointsAsSent'
    <2>1. k \notin {"none", "add", "remove"} /\ pc # "panicked"
        BY <1>4 DEF Answered, Take
    <2>2. /\ Queue' /\ sent' = sent /\ Taken' = Taken \cup {Scanned}
          /\ sent[Scanned].kind = k
        BY <1>4, <2>1, TakeQueue
    <2> QED  BY <1>4, <2>1, <2>2, OtherBreakpoints
<1>5. CASE Resume \/ GetCallStack \/ \E k \in Answered : Answer(k)
    BY <1>4, <1>5 DEF Resume, GetCallStack, Answer
<1>6. CASE HandleAddBreakpoint
    <2>1. Take("add") /\ pc # "panicked"
          /\ breakpoints' = [breakpoints EXCEPT ![reader.pos[1]] = @ \cup {reader.pos[2]}]
        BY <1>6 DEF HandleAddBreakpoint, Take
    <2> PICK n : n = Scanned
        OBVIOUS
    <2>2. /\ Queue' /\ sent' = sent /\ reader \in Command /\ reader.kind = "add"
          /\ n \in Nat /\ reader = sent[n]
          /\ (\A i \in Taken : i < n) /\ Taken' = Taken \cup {n}
        BY <2>1, TakeQueue
    <2>3. PICK p \in Pos : reader = AddBreakpoint(p)
        BY <2>2, Kinds
    <2>4. breakpoints' = [breakpoints EXCEPT ![p[1]] = @ \cup {p[2]}]
        BY <2>1, <2>3, Breakpoints
    <2> QED  BY <2>1, <2>2, <2>3, <2>4, AddBreakpoints
<1>7. CASE HandleRemoveBreakpoint
    <2>1. /\ Take("remove") /\ pc # "panicked"
          /\ \/ breakpoints' = [breakpoints EXCEPT ![reader.pos[1]] = @ \ {reader.pos[2]}]
             \/ pc' = "panicked"
        BY <1>7 DEF HandleRemoveBreakpoint, Take
    <2> PICK n : n = Scanned
        OBVIOUS
    <2>2. /\ Queue' /\ sent' = sent /\ reader \in Command /\ reader.kind = "remove"
          /\ n \in Nat /\ reader = sent[n]
          /\ (\A i \in Taken : i < n) /\ Taken' = Taken \cup {n}
        BY <2>1, TakeQueue
    <2>3. PICK p \in Pos : reader = RemoveBreakpoint(p)
        BY <2>2, Kinds
    <2>4. CASE pc' = "panicked"
        BY <2>2, <2>4 DEF BreakpointsAsSent
    <2>5. CASE pc' # "panicked"
        <3>1. breakpoints' = [breakpoints EXCEPT ![p[1]] = @ \ {p[2]}]
            BY <2>1, <2>3, <2>5, Breakpoints
        <3> QED  BY <2>1, <2>2, <2>3, <3>1, RemoveBreakpoints
    <2> QED  BY <2>4, <2>5
<1> QED  BY <1>1, <1>2, <1>3, <1>5, <1>6, <1>7 DEF Next, Stopped

\* Before the client sends anything nothing is taken.
LEMMA QueueInit == Init => Queue /\ BreakpointsAsSent /\ Taken = {}
<1> SUFFICES ASSUME Init
             PROVE  Queue /\ BreakpointsAsSent /\ Taken = {}
    OBVIOUS
<1>1. sent = << >> /\ inbox = << >> /\ reader = None /\ taken = 0
      /\ breakpoints = [f \in File |-> {}]
    BY DEF Init
<1>2. DOMAIN sent = {} /\ DOMAIN inbox = {} /\ Len(sent) = 0 /\ Len(inbox) = 0
    BY <1>1
<1>3. Good = {} /\ Taken = {}
    BY <1>2 DEF Good, Taken
<1>4. {j \in Good : j <= Passed} = {}
    BY <1>3
<1>5. Rank(Good, Passed) = 0
    BY <1>4, FS_EmptySet DEF Rank
<1>6. Queue
    <2>1. Len(inbox) <= Len(sent)
        BY <1>2
    <2> QED  BY <1>1, <1>2, <1>5, <2>1 DEF Queue
<1>7. BreakpointsAsSent
    BY <1>1, <1>3 DEF BreakpointsAsSent, Pos
<1> QED  BY <1>3, <1>6, <1>7

(* Commands take effect once, in the order the client gave them, and none  *)
(* is skipped: the breakpoints of the VM are always those that follow from *)
(* the commands it took, and these are the first ones sent.  (the reader,  *)
(* cmdCh, handleAddBreakpoint, handleRemoveBreakpoint)                     *)
THEOREM BreakpointsFollow == Spec => []BreakpointsAsSent
BY QueueInit, BreakpointsNext, TypesCorrect, PTL DEF Spec

--------------------------------------------------------------------------------
(* Events                                                                  *)

\* The modes of the VM in which the client has not heard of the next stop.
Underway == {"fetch", "execute", "exited"}

\* Visible commands are a finite set of places.
LEMMA VisibleFacts ==
    ASSUME Types
    PROVE  /\ Visible \in SUBSET Nat /\ IsFiniteSet(Visible) /\ Visible \subseteq Taken
           /\ Cardinality(Visible) \in Nat
<1>1. Visible \subseteq Taken /\ Visible \subseteq Good
    BY DEF Visible, Taken
<1>2. IsFiniteSet(Visible)
    BY <1>1, GoodFacts, FS_Subset
<1> QED  BY <1>1, <1>2, GoodFacts, FS_CardinalityType

\* An event held is a sequence.
LEMMA HeldFacts ==
    ASSUME NEW e \in Event \cup {"none"}
    PROVE  Held(e) \in Seq(Event)
<1>1. CASE e = "none"
    BY <1>1 DEF Held
<1>2. CASE e # "none"
    <2>1. e \in Event /\ Held(e) = <<e>>
        BY <1>2 DEF Held
    <2> QED  BY <2>1
<1> QED  BY <1>1, <1>2

\* Concatenation of what is held.
LEMMA HeldConcat ==
    ASSUME NEW o \in Seq(Event), NEW e \in Event
    PROVE  /\ o \o << >> = o
           /\ o \o <<e>> = Append(o, e)
           /\ Append(o, e) \in Seq(Event)
OBVIOUS

\* The stream is a sequence of events.
LEMMA StreamType ==
    ASSUME Types
    PROVE  Stream \in Seq(Event) /\ Len(Stream) \in Nat
<1>1. Held(writer) \in Seq(Event) /\ Held(event) \in Seq(Event) /\ outbox \in Seq(Event)
    BY HeldFacts DEF Types
<1>2. Stream \in Seq(Event)
    BY <1>1 DEF Stream
<1> QED  BY <1>2

\* The writer encodes an event.
LEMMA EncodeStream ==
    ASSUME Types, WriterEncode
    PROVE  Stream' = Stream
<1>1. /\ writer \in Event /\ outbox' = Append(outbox, writer) /\ writer' = "none"
      /\ event' = event
    BY DEF WriterEncode, Types
<1> PICK o \in Seq(Event) : o = outbox
    BY DEF Types
<1> PICK w \in Event : w = writer
    BY <1>1
<1>2. Stream = Append(o, w) \o Held(event)
    BY HeldFacts, HeldConcat DEF Stream, Held, Event, Answered
<1>3. Stream' = Append(o, w) \o Held(event)
    <2>1. Held(writer') = << >>
        BY <1>1 DEF Held
    <2>2. outbox' \o Held(writer') = Append(o, w)
        BY <1>1, <2>1, HeldConcat
    <2> QED  BY <1>1, <2>2 DEF Stream, Held
<1> QED  BY <1>2, <1>3

\* The VM hands an event to the writer.
LEMMA SendStream ==
    ASSUME Types, event # "none", SendEvent
    PROVE  Stream' = Stream
<1>1. /\ writer = "none" /\ writer' = event /\ event' = "none" /\ outbox' = outbox
    BY DEF SendEvent
<1> PICK o \in Seq(Event) : o = outbox
    BY DEF Types
<1> PICK e \in Event : e = event
    BY DEF Types
<1>2. Held("none") = << >> /\ Held(e) = <<e>>
    BY DEF Held, Event, Answered
<1>3. Stream = (o \o << >>) \o <<e>>
    BY <1>1, <1>2 DEF Stream
<1>4. Stream' = (o \o <<e>>) \o << >>
    BY <1>1, <1>2 DEF Stream, Held
<1> QED  BY <1>3, <1>4, HeldConcat

\* The VM is about to send an event.
LEMMA GrowStream ==
    ASSUME Types, NEW e \in Event, event = "none", event' = e, UNCHANGED <<outbox, writer>>
    PROVE  Stream' = Append(Stream, e)
<1>0. outbox \in Seq(Event) /\ Held(writer) \in Seq(Event)
    BY HeldFacts DEF Types
<1>4. outbox \o Held(writer) \in Seq(Event)
    BY <1>0
<1> PICK s \in Seq(Event) : s = outbox \o Held(writer)
    BY <1>4, Zenon
<1>1. Held("none") = << >> /\ Held(e) = <<e>>
    BY DEF Held, Event, Answered
<1>2. Stream = s \o << >>
    BY <1>1 DEF Stream
<1>3. Stream' = s \o <<e>>
    BY <1>1 DEF Stream, Held
<1> QED  BY <1>2, <1>3, HeldConcat

\* The rest of the invariant about events.
EventInv == EventStream /\ LastResumes

\* As many as there are, or one more.
LEMMA Between ==
    ASSUME NEW c \in Nat, NEW n, n = c + 0 \/ n = c + 1
    PROVE  n \in c .. c + 1
OBVIOUS

\* A step that the client sees nothing of.
LEMMA EventSame ==
    ASSUME EventInv, Stream' = Stream, Visible' = Visible,
           \A i \in Visible : sent'[i] = sent[i],
           pc' \in Underway <=> pc \in Underway, pc' = "killed" <=> pc = "killed"
    PROVE  EventInv'
<1>1. EventStream'
    BY DEF EventInv, EventStream, Rank, Underway
<1>2. LastResumes'
    BY DEF EventInv, LastResumes, Underway
<1> QED  BY <1>1, <1>2 DEF EventInv

\* The reader panics: what the client has seen stays.
LEMMA EventKilled ==
    ASSUME EventInv, Stream' = Stream, Visible' = Visible,
           \A i \in Visible : sent'[i] = sent[i],
           pc' = "killed"
    PROVE  EventInv'
<1>1. EventStream'
    BY DEF EventInv, EventStream, Rank
<1>2. LastResumes'
    BY DEF LastResumes
<1> QED  BY <1>1, <1>2 DEF EventInv

\* The VM stops.
LEMMA EventStop ==
    ASSUME Types, EventInv, Stream' = Append(Stream, "stopped"), UNCHANGED <<sent, taken>>,
           pc \in Underway, pc' = "send"
    PROVE  EventInv'
<1> PICK s \in Seq(Event) : s = Stream
    BY StreamType
<1> PICK V \in SUBSET Nat : V = Visible
    BY VisibleFacts
<1>1. Visible' = V /\ IsFiniteSet(V) /\ Cardinality(V) \in Nat
    BY VisibleFacts DEF Visible, Taken, Good, Rank
<1> PICK n \in Nat : n = Cardinality(V)
    BY <1>1
<1>2. Len(s) = n
    BY DEF EventInv, EventStream, Underway
<1> PICK t : t = Append(s, "stopped")
    OBVIOUS
<1>3. /\ Len(t) = n + 1 /\ t[n + 1] = "stopped"
      /\ \A k \in 1 .. n : t[k] = s[k]
      /\ s # << >> => n >= 1
      /\ s = << >> => n = 0
    BY <1>2 DEF Event
<1>4. t[1] = "stopped"
    <2>1. CASE s = << >>
        BY <2>1, <1>3
    <2>2. CASE s # << >>
        BY <2>2, <1>3 DEF EventInv, EventStream
    <2> QED  BY <2>1, <2>2
<1>5. ASSUME NEW i \in V
      PROVE  t[Rank(V, i) + 1] = Effect(sent[i])
    <2>0. i \in Int
        OBVIOUS
    <2>1. Rank(V, i) \in Nat /\ Rank(V, i) <= n
        BY <2>0, <1>1, RankFacts
    <2> PICK r \in Nat : r = Rank(V, i)
        BY <2>1
    <2>2. CASE r < n
        <3>1. s[r + 1] = Effect(sent[i])
            BY <2>2, <1>2 DEF EventInv, EventStream
        <3> QED  BY <3>1, <2>2, <1>3
    <2>3. CASE r = n
        <3>1. \A j \in V : j <= i
            BY <2>3, <1>1, RankLast
        <3>2. sent[i].kind = "mode"
            BY <3>1 DEF EventInv, LastResumes, Underway
        <3>3. Effect(sent[i]) = "stopped"
            BY <3>2 DEF Effect
        <3>4. Rank(V, i) + 1 = n + 1
            BY <2>3
        <3>5. t[n + 1] = "stopped"
            BY <1>3
        <3>6. t[Rank(V, i) + 1] = t[n + 1]
            BY <3>4
        <3> QED  BY <3>3, <3>5, <3>6
    <2>4. r < n \/ r = n
        BY <2>1
    <2> QED  BY <2>2, <2>3, <2>4, Zenon
<1>6. Stream' = t /\ sent' = sent
    OBVIOUS
<1>7. EventStream'
    <2>1. Len(Stream') = Cardinality(Visible') + 1
        BY <1>1, <1>3, <1>6
    <2>2. \A i \in Visible' : Stream'[Rank(Visible', i) + 1] = Effect(sent'[i])
        BY <1>1, <1>5, <1>6
    <2>3. Len(Stream') \in Cardinality(Visible') .. Cardinality(Visible') + 1
        BY <2>1, <1>1, Between
    <2> QED  BY <2>1, <2>2, <2>3, <1>4, <1>6 DEF EventStream, Rank, Effect
<1> QED  BY <1>7 DEF EventInv, LastResumes

\* The VM takes a command to resume.
LEMMA EventResume ==
    ASSUME Types, EventInv, Stream' = Stream, sent' = sent,
           NEW n \in Nat, \A i \in Visible : i < n, Visible' = Visible \cup {n},
           sent[n].kind = "mode", pc = "stopped", pc' = "execute"
    PROVE  EventInv'
<1> PICK V \in SUBSET Nat : V = Visible
    BY VisibleFacts
<1>1. /\ Cardinality(V \cup {n}) = Cardinality(V) + 1
      /\ Rank(V \cup {n}, n) = Cardinality(V) + 1
      /\ \A i \in V : Rank(V \cup {n}, i) = Rank(V, i)
    BY VisibleFacts, RankAdd
<1>2. Len(Stream) = Cardinality(V) + 1
    BY DEF EventInv, EventStream
<1>3. ASSUME NEW i \in V \cup {n}, Rank(V \cup {n}, i) < Len(Stream)
      PROVE  Stream[Rank(V \cup {n}, i) + 1] = Effect(sent[i])
    <2>0. Cardinality(V) \in Nat
        BY VisibleFacts
    <2>1. i # n
        BY <2>0, <1>1, <1>2, <1>3
    <2>2. i \in V /\ Rank(V \cup {n}, i) = Rank(V, i)
        BY <2>1, <1>1
    <2> QED  BY <2>2, <1>3 DEF EventInv, EventStream
<1>4. EventStream'
    <2>1. Len(Stream') = Cardinality(Visible')
        BY <1>1, <1>2 DEF EventInv, EventStream
    <2>2. Len(Stream') = Cardinality(Visible') + 0
        BY <2>1, StreamType
    <2>3. Stream' # << >> => Stream'[1] = "stopped"
        BY DEF EventInv, EventStream
    <2>4. \A i \in Visible' :
             Rank(Visible', i) < Len(Stream') => Stream'[Rank(Visible', i) + 1] = Effect(sent'[i])
        BY <1>3
    <2>5. Len(Stream') \in Cardinality(Visible') .. Cardinality(Visible') + 1
        <3>1. Cardinality(V) \in Nat /\ Cardinality(Visible') = Cardinality(V) + 1
            BY <1>1, VisibleFacts
        <3>2. Cardinality(Visible') \in Nat
            BY <3>1
        <3> QED  BY <2>2, <3>2, Between
    <2> QED  BY <2>2, <2>3, <2>4, <2>5 DEF EventStream, Rank, Effect
<1>5. LastResumes'
    <2> SUFFICES ASSUME NEW i \in V \cup {n}, \A j \in V \cup {n} : j <= i
                 PROVE  sent[i].kind = "mode"
        BY DEF LastResumes
    <2>1. n <= i /\ i \in Nat
        OBVIOUS
    <2>2. ~(i < n)
        BY <2>1
    <2>3. i = n
        BY <2>2
    <2> QED  BY <2>3
<1> QED  BY <1>4, <1>5 DEF EventInv

\* The VM takes a question and is about to answer it.
LEMMA EventAnswer ==
    ASSUME Types, EventInv, NEW e \in Event, Stream' = Append(Stream, e), sent' = sent,
           NEW n \in Nat, \A i \in Visible : i < n, Visible' = Visible \cup {n},
           Effect(sent[n]) = e, pc = "stopped", pc' = "send"
    PROVE  EventInv'
<1> PICK V \in SUBSET Nat : V = Visible
    BY VisibleFacts
<1>1. /\ Cardinality(V \cup {n}) = Cardinality(V) + 1
      /\ Rank(V \cup {n}, n) = Cardinality(V) + 1
      /\ \A i \in V : Rank(V \cup {n}, i) = Rank(V, i)
      /\ IsFiniteSet(V)
    BY VisibleFacts, RankAdd
<1> PICK c \in Nat : c = Cardinality(V)
    BY VisibleFacts
<1> PICK s \in Seq(Event) : s = Stream
    BY StreamType
<1>2. Len(s) = c + 1 /\ (s # << >> => s[1] = "stopped")
    BY DEF EventInv, EventStream
<1> PICK t : t = Append(s, e)
    OBVIOUS
<1>3. /\ Len(t) = c + 2 /\ t[c + 2] = e
      /\ \A k \in 1 .. c + 1 : t[k] = s[k]
      /\ s # << >>
    BY <1>2
<1>4. ASSUME NEW i \in V \cup {n}
      PROVE  t[Rank(V \cup {n}, i) + 1] = Effect(sent[i])
    <2>1. CASE i = n
        BY <2>1, <1>1, <1>3
    <2>2. CASE i # n
        <3>0. i \in V /\ i \in Int
            BY <2>2
        <3>1. Rank(V, i) \in Nat /\ Rank(V, i) <= c
            BY <3>0, <1>1, RankFacts
        <3> PICK r \in Nat : r = Rank(V, i)
            BY <3>1
        <3>2. r < Len(s) /\ r + 1 \in 1 .. c + 1
            BY <3>1, <1>2
        <3>3. s[r + 1] = Effect(sent[i])
            BY <3>2, <2>2 DEF EventInv, EventStream
        <3> QED  BY <3>2, <3>3, <2>2, <1>1, <1>3
    <2> QED  BY <2>1, <2>2
<1>5. t[1] = "stopped"
    BY <1>2, <1>3
<1>6. EventStream'
    <2>1. Len(Stream') = Cardinality(Visible') + 1
        BY <1>1, <1>3
    <2>2. \A i \in Visible' : Stream'[Rank(Visible', i) + 1] = Effect(sent'[i])
        BY <1>4
    <2>3. Len(Stream') \in Cardinality(Visible') .. Cardinality(Visible') + 1
        <3>1. c \in Nat /\ Cardinality(Visible') = c + 1
            BY <1>1
        <3>2. Cardinality(Visible') \in Nat
            BY <3>1
        <3> QED  BY <2>1, <3>2, Between
    <2> QED  BY <2>1, <2>2, <2>3, <1>5 DEF EventStream, Rank, Effect
<1> QED  BY <1>6 DEF EventInv, LastResumes

\* A command the client sees nothing of leaves the visible ones alone.
LEMMA TakeVisible ==
    ASSUME sent' = sent, NEW n, Taken' = Taken \cup {n}
    PROVE  /\ sent[n].kind \in Answered \cup {"mode"} => Visible' = Visible \cup {n}
           /\ sent[n].kind \notin Answered \cup {"mode"} => Visible' = Visible
BY DEF Visible

\* No command is taken: the same commands are visible.
LEMMA KeptVisible ==
    ASSUME Kept
    PROVE  Visible' = Visible /\ \A i \in Visible : sent'[i] = sent[i]
BY DEF Kept, Visible

\* Every step keeps the stream of events in line with the commands taken.
LEMMA EventsNext ==
    Types /\ Types' /\ Queue /\ AtStop /\ EventInv /\ [Next]_vars => EventInv'
<1> SUFFICES ASSUME Types, Types', Queue, AtStop, EventInv, [Next]_vars
             PROVE  EventInv'
    OBVIOUS
<1>1. ASSUME Kept, Stream' = Stream, pc' \in Underway <=> pc \in Underway,
             pc' = "killed" <=> pc = "killed"
      PROVE  EventInv'
    BY <1>1, KeptVisible, EventSame
<1>2. CASE Client
    <2> PICK c \in Command : ClientSends(c)
        BY <1>2 DEF Client
    <2>1. UNCHANGED <<outbox, writer, event, pc>>
        BY DEF ClientSends
    <2>2. Stream' = Stream
        BY <2>1 DEF Stream, Held
    <2> QED  BY <1>1, <2>1, <2>2, SendQueue
<1>3. CASE ReaderScan
    <2>1. /\ UNCHANGED <<outbox, writer, event>>
          /\ pc' = pc \/ pc' = "killed"
        BY <1>3 DEF ReaderScan
    <2>2. Stream' = Stream /\ Kept
        BY <1>3, <2>1, ScanQueue DEF Stream, Held
    <2>3. CASE pc' = "killed"
        BY <2>2, <2>3, KeptVisible, EventKilled
    <2> QED  BY <1>1, <2>1, <2>2, <2>3
<1>4. CASE WriterEncode
    <2>1. UNCHANGED <<sent, inbox, reader, taken, pc>>
        BY <1>4 DEF WriterEncode, histVars
    <2> QED  BY <1>1, <1>4, <2>1, SameQueue, EncodeStream
<1>5. CASE SendEvent
    <2>1. UNCHANGED <<sent, inbox, reader, taken>> /\ pc = "send" /\ pc' = "stopped"
        BY <1>5 DEF SendEvent, histVars
    <2>2. event # "none"
        BY <2>1 DEF AtStop
    <2> QED  BY <1>1, <1>5, <2>1, <2>2, SameQueue, SendStream DEF Underway
<1>6. CASE Fetch /\ ShouldStop
    <2>1. /\ pc = "fetch" /\ pc' = "send" /\ event' = "stopped"
          /\ UNCHANGED <<sent, taken, outbox, writer>>
        BY <1>6 DEF Fetch, netVars
    <2>2. event = "none" /\ "stopped" \in Event
        BY <2>1 DEF AtStop, Event
    <2> QED  BY <2>1, <2>2, GrowStream, EventStop DEF Underway
<1>7. CASE (Fetch /\ ~ShouldStop) \/ Step \/ Exit \/ (\E f \in Fiber : Spawn(f) \/ Switch(f))
             \/ Ended \/ UNCHANGED vars
    <2>1. /\ UNCHANGED <<sent, inbox, reader, taken, outbox, writer, event>>
          /\ pc' \in Underway <=> pc \in Underway
          /\ pc' = "killed" <=> pc = "killed"
        BY <1>7 DEF Fetch, Step, Exit, Spawn, Switch, Ended, Underway, vars, netVars, histVars
    <2>2. Stream' = Stream
        BY <2>1 DEF Stream, Held
    <2> QED  BY <1>1, <2>1, <2>2, SameQueue
<1>8. ASSUME NEW k, k # "none", Take(k)
      PROVE  /\ sent' = sent /\ Taken' = Taken \cup {Scanned} /\ sent[Scanned].kind = k
             /\ Scanned \in Nat /\ \A i \in Visible : i < Scanned
             /\ pc = "stopped" /\ event = "none" /\ UNCHANGED <<outbox, writer>>
    BY <1>8, TakeQueue DEF Take, AtStop, Visible
<1>9. CASE Resume
    <2>1. Take("mode") /\ pc' = "execute" /\ event' = event
        BY <1>9 DEF Resume
    <2> PICK n : n = Scanned
        OBVIOUS
    <2>2. /\ sent' = sent /\ Taken' = Taken \cup {n} /\ sent[n].kind = "mode"
          /\ n \in Nat /\ \A i \in Visible : i < n
          /\ pc = "stopped" /\ UNCHANGED <<outbox, writer, event>>
        BY <2>1, <1>8
    <2>3. Stream' = Stream
        BY <2>2 DEF Stream, Held
    <2>4. Visible' = Visible \cup {n}
        BY <2>2, TakeVisible
    <2> QED  BY <2>1, <2>2, <2>3, <2>4, EventResume
<1>10. ASSUME NEW k \in Answered, Answer(k)
       PROVE  EventInv'
    <2>1. Take(k) /\ pc' = "send" /\ event' = k /\ k \notin {"none", "mode"} /\ k \in Event
        BY <1>10 DEF Answer, Answered, Event
    <2> PICK n : n = Scanned
        OBVIOUS
    <2>2. /\ sent' = sent /\ Taken' = Taken \cup {n} /\ sent[n].kind = k
          /\ n \in Nat /\ \A i \in Visible : i < n
          /\ pc = "stopped" /\ event = "none" /\ UNCHANGED <<outbox, writer>>
        BY <2>1, <1>8
    <2>3. Stream' = Append(Stream, k)
        BY <2>1, <2>2, GrowStream
    <2>4. Visible' = Visible \cup {n}
        BY <2>2, TakeVisible
    <2>5. Effect(sent[n]) = k
        BY <2>1, <2>2 DEF Effect
    <2> QED  BY <2>1, <2>2, <2>3, <2>4, <2>5, EventAnswer
<1>11. ASSUME NEW k \in {"callstack", "add", "remove"}, Take(k), event' = event,
              pc' \in {"stopped", "panicked"}
       PROVE  EventInv'
    <2> PICK n : n = Scanned
        OBVIOUS
    <2>1. /\ sent' = sent /\ Taken' = Taken \cup {n} /\ sent[n].kind = k
          /\ pc = "stopped" /\ UNCHANGED <<outbox, writer, event>>
        BY <1>8, <1>11
    <2>2. Stream' = Stream
        BY <2>1 DEF Stream, Held
    <2>3. k \notin Answered \cup {"mode"}
        BY DEF Answered
    <2>4. Visible' = Visible
        BY <2>1, <2>3, TakeVisible
    <2>5. (pc' \in Underway <=> pc \in Underway) /\ (pc' = "killed" <=> pc = "killed")
        BY <1>11, <2>1 DEF Underway
    <2> QED  BY <2>1, <2>2, <2>4, <2>5, EventSame
<1>12. CASE GetCallStack \/ HandleAddBreakpoint \/ HandleRemoveBreakpoint
    <2>1. PICK k \in {"callstack", "add", "remove"} : Take(k)
        BY <1>12 DEF GetCallStack, HandleAddBreakpoint, HandleRemoveBreakpoint
    <2>2. event' = event /\ pc' \in {"stopped", "panicked"}
        BY <1>12 DEF GetCallStack, HandleAddBreakpoint, HandleRemoveBreakpoint, Take
    <2> QED  BY <2>1, <2>2, <1>11
<1> QED
    BY <1>2, <1>3, <1>4, <1>5, <1>6, <1>7, <1>9, <1>10, <1>12 DEF Next, Stopped, Running

(* The client is told of one stop, then of the answers to its questions in *)
(* their order, then of one stop for every resume, and so on, and of       *)
(* nothing else, for every number of commands and every schedule of        *)
(* reader, VM and writer.  (runFiber, handleCommand, eventCh)              *)
THEOREM EventsFollow == Spec => []EventStream
<1>1. Init => AtStop /\ StopInv /\ Queue /\ BreakpointsAsSent
    BY QueueInit DEF Init, StopInv, AtStop, Frame, Steps, NoBreakpointMissed, StepsLeave
<1>2. Init => EventInv
    <2> SUFFICES ASSUME Init
                 PROVE  EventInv
        OBVIOUS
    <2>1. Visible = {}
        BY QueueInit DEF Visible
    <2>2. Stream = << >>
        BY DEF Init, Stream, Held
    <2>3. Len(Stream) = Cardinality(Visible) + 0
        BY <2>1, <2>2, FS_EmptySet
    <2>4. pc = "fetch"
        BY DEF Init
    <2>5. Len(Stream) \in Cardinality(Visible) .. Cardinality(Visible) + 1
        BY <2>1, <2>3, FS_EmptySet, Between
    <2> QED  BY <2>1, <2>2, <2>3, <2>4, <2>5 DEF EventInv, EventStream, LastResumes
<1>3. StopInv => AtStop
    BY DEF StopInv
<1>4. EventInv => EventStream
    BY DEF EventInv
<1> QED
    BY <1>1, <1>2, <1>3, <1>4, EventsNext, StopNext, BreakpointsNext, TypesCorrect, PTL DEF Spec
================================================================================
