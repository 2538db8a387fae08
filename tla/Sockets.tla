------------------------------ MODULE Sockets -------------------------------
(***************************************************************************)
(* The network builtins of a Sydney program: the tables of connections and *)
(* listeners that its integer handles index, on both backends.             *)
(*                                                                         *)
(* "vm": object/builtins.go.  One mutex guards the tables and is never     *)
(* held while a call blocks.  Connecting, listening, accepting and reading *)
(* run in a goroutine of their own (AsyncFn); writing and closing run on   *)
(* the thread of the VM, and no other builtin starts meanwhile.            *)
(*                                                                         *)
(* "native": sydney_rt/src/socket.rs and tls.rs, called by the threads of  *)
(* a compiled program.  Each table has a mutex, and a read or a write      *)
(* holds it until the connection lets it go on.                            *)
(*                                                                         *)
(* The operating system and the peers are external.  An error may be       *)
(* reported by every call to the operating system.  Of the data only its   *)
(* origin is kept, and whether it has a NUL byte.                          *)
(***************************************************************************)
EXTENDS Integers, Sequences, FiniteSets, FiniteSetsExt

CONSTANTS Task,      \* fibers, or threads
          Backends,  \* subset of {"vm", "native"}
          Kinds,     \* of connections: subset of {"stream", "tls"}
          Handles,   \* the numbers that the program passes as handles
          MaxSocks,  \* bound on connections and listeners ever made
          MaxSends,  \* bound on messages that peers send
          MaxCalls   \* bound on calls of builtins

ASSUME SocketsAssumption ==
    /\ Backends \subseteq {"vm", "native"} /\ Backends # {}
    /\ Kinds \subseteq {"stream", "tls"} /\ Handles \subseteq Int
    /\ {MaxSocks, MaxSends, MaxCalls} \subseteq Nat

Nil    == 0        \* nil or None: the slot is free
Nobody == "nobody"
Sock   == 1 .. MaxSocks

ASSUME TaskAssumption == IsFiniteSet(Task) /\ Nobody \notin Task

\* The tables, and the thread of the VM.
Tables == {"stream", "tls", "listener"}
Locks  == Tables \cup {"thread"}

VARIABLES backend,
          slab,   \* table -> its slots; handle h is slot h + 1
          lock,   \* who holds a lock while waiting: native tables, VM thread
          sock,   \* connections and listeners, as the operating system has them
          call,   \* the builtin that a task is in
          sent,   \* messages sent by peers so far
          calls   \* calls made so far

vars == <<backend, slab, lock, sock, call, sent, calls>>

\* refs: descriptors of this process that are open on it; via: the listener
\* in whose backlog a connection waits; in: what can be read, "hello" being
\* the answer to a TLS handshake; full: nothing more can be written for now.
Conn(via, refs) == [kind |-> "conn", refs |-> refs, peer |-> TRUE, via |-> via, in |-> "none", full |-> FALSE]
Listener == [kind |-> "listener", refs |-> 1, peer |-> FALSE, via |-> Nil, in |-> "none", full |-> FALSE]
Unused   == [kind |-> "none", refs |-> 0, peer |-> FALSE, via |-> Nil, in |-> "none", full |-> FALSE]

\* A task in a builtin: op is the builtin, then where it waits in it; obj is
\* the connection or listener that it works on; clone is a second descriptor
\* of a listener.  result: of the last builtin.
Idle(result) == [op |-> "idle", table |-> "stream", tls |-> FALSE, h |-> -1,
                 obj |-> Nil, clone |-> Nil, result |-> result]
Err     == <<"err">>
Ok(v)   == <<"ok", v>>

Made == {s \in Sock : sock[s].kind # "none"}
New  == Cardinality(Made) + 1

Init ==
    /\ backend \in Backends
    /\ slab = [k \in Tables |-> <<>>]
    /\ lock = [l \in Locks |-> Nobody]
    /\ sock = [s \in Sock |-> Unused]
    /\ call = [t \in Task |-> Idle(Err)]
    /\ sent = 0 /\ calls = 0

-----------------------------------------------------------------------------
\* Common parts

\* The VM keeps TLS connections in the same table as the others.
Table(kind) == IF backend = "vm" /\ kind = "tls" THEN "stream" ELSE kind

\* Mutant: without a free slot the last one is taken.
MutSlot(slots) == IF slots = <<>> THEN 1 ELSE Len(slots)

\* slab_insert, slabInsertConn, slabInsertListener: the slot for a new entry.
Slot(slots) == IF \E i \in DOMAIN slots : slots[i] = Nil
               THEN Min({i \in DOMAIN slots : slots[i] = Nil})
               ELSE Len(slots) + 1

Put(slots, i, v) == [j \in 1 .. (IF i > Len(slots) THEN i ELSE Len(slots)) |->
                        IF j = i THEN v ELSE slots[j]]

\* The check that every builtin on a handle begins with.
Valid(k, h) == h >= 0 /\ h < Len(slab[k]) /\ slab[k][h + 1] # Nil

\* Closing one descriptor of o; with the last one of a listener the
\* connections in its backlog are reset.
Drop(o) ==
    [x \in Sock |->
        IF x = o THEN [sock[x] EXCEPT !.refs = @ - 1]
        ELSE IF o # Nil /\ sock[x].via = o /\ sock[o].refs = 1
             THEN [sock[x] EXCEPT !.via = Nil, !.peer = FALSE]
        ELSE sock[x]]

\* t goes on to wait at op, holding the locks ls.
Wait(t, op, obj, ls) ==
    /\ call' = [call EXCEPT ![t].op = op, ![t].obj = obj]
    /\ lock' = [l \in Locks |-> IF l \in ls THEN t ELSE lock[l]]

\* The builtin ends with result r, and what t holds is released.
Return(t, r) ==
    /\ call' = [call EXCEPT ![t] = Idle(r)]
    /\ lock' = [l \in Locks |-> IF lock[l] = t THEN Nobody ELSE lock[l]]

\* A lock that can be had.
Free(k) == lock[k] = Nobody

At(t, op) == call[t].op = op

-----------------------------------------------------------------------------
\* Builtins

Builtins == ({"connect"} \X Kinds \X {-1}) \cup ({"listen"} \X {"listener"} \X {-1})
            \cup ({"accept"} \X {"listener"} \X Handles)
            \cup ({"read", "write"} \X Kinds \X Handles)
            \cup ({"close"} \X Tables \X Handles)

\* t calls a builtin.  On the VM the thread must be free, and the builtins
\* that are not asynchronous keep it.
Begin(t, b) ==
    /\ At(t, "idle") /\ calls < MaxCalls
    /\ backend = "vm" => Free("thread")
    /\ call' = [call EXCEPT ![t] = [Idle(Err) EXCEPT
                    !.op = b[1], !.table = Table(b[2]), !.tls = (b[2] = "tls"), !.h = b[3]]]
    /\ lock' = IF backend = "vm" /\ b[1] \in {"write", "close"}
               THEN [lock EXCEPT !["thread"] = t] ELSE lock
    /\ calls' = calls + 1
    /\ UNCHANGED <<backend, slab, sock, sent>>

\* tcp_conn, tls_conn, tcp_listen: what is made is not yet in a table.  The
\* operating system gives up on a host that does not answer.
Make(t) ==
    /\ At(t, "connect") \/ At(t, "listen")
    /\ \/ Return(t, Err) /\ UNCHANGED sock
       \/ /\ New \in Sock
          /\ sock' = [sock EXCEPT ![New] = IF At(t, "connect") THEN Conn(Nil, 1) ELSE Listener]
          /\ Wait(t, IF call[t].tls THEN "handshake" ELSE "insert", New, {})
    /\ UNCHANGED <<backend, slab, sent, calls>>

\* tls_conn then waits, without a bound, for the peer's part of the handshake.
\* An answer that is not accepted, or a peer that leaves, fails it, and the
\* connection is closed.
Handshake(t) ==
    /\ At(t, "handshake")
    /\ LET c == call[t].obj IN
        \/ /\ sock[c].in = "hello"
           /\ Wait(t, "insert", c, {}) /\ sock' = [sock EXCEPT ![c].in = "none"]
        \/ /\ sock[c].in # "none" \/ ~sock[c].peer
           /\ Return(t, Err) /\ sock' = Drop(c)
    /\ UNCHANGED <<backend, slab, sent, calls>>

\* Mutant: the clone of the listener is not dropped.
MutInsert(t) ==
    /\ At(t, "insert")
    /\ Free(call[t].table)
    /\ LET k == call[t].table  i == Slot(slab[k]) IN
        /\ slab' = [slab EXCEPT ![k] = Put(@, i, call[t].obj)]
        /\ Return(t, Ok(i - 1))
    /\ UNCHANGED <<backend, sock, sent, calls>>

\* The end of the builtins that make something: under the lock of the table
\* it gets a slot, whose number is the result.  A native accept then drops
\* its clone of the listener.
Insert(t) ==
    /\ At(t, "insert")
    /\ Free(call[t].table)
    /\ LET k == call[t].table  i == Slot(slab[k]) IN
        /\ slab' = [slab EXCEPT ![k] = Put(@, i, call[t].obj)]
        /\ Return(t, Ok(i - 1))
    /\ sock' = Drop(call[t].clone)
    /\ UNCHANGED <<backend, sent, calls>>

\* Mutant: the early return forgets to unlock.
MutRefuse(t) ==
    /\ call[t].op \in {"accept", "read", "write", "close"}
    /\ Free(call[t].table)
    /\ ~Valid(call[t].table, call[t].h)
    /\ call' = [call EXCEPT ![t] = Idle(Err)]
    /\ lock' = [lock EXCEPT ![call[t].table] = t, !["thread"] = IF @ = t THEN Nobody ELSE @]
    /\ UNCHANGED <<backend, slab, sock, sent, calls>>

\* The look-up under the lock that the other builtins begin with.
Refuse(t) ==
    /\ call[t].op \in {"accept", "read", "write", "close"}
    /\ Free(call[t].table)
    /\ ~Valid(call[t].table, call[t].h)
    /\ Return(t, Err)
    /\ UNCHANGED <<backend, slab, sock, sent, calls>>

Found(t, op) == /\ At(t, op) /\ Free(call[t].table) /\ Valid(call[t].table, call[t].h)
Entry(t)     == slab[call[t].table][call[t].h + 1]

\* tcp_accept up to where it blocks.  The native one works on a clone of the
\* listener, and try_clone may fail.
Accept(t) ==
    /\ Found(t, "accept")
    /\ \/ /\ backend = "vm"
          /\ Wait(t, "accepting", Entry(t), {}) /\ UNCHANGED sock
       \/ /\ backend = "native"
          /\ call' = [call EXCEPT ![t].op = "accepting", ![t].obj = Entry(t), ![t].clone = Entry(t)]
          /\ sock' = [sock EXCEPT ![Entry(t)].refs = @ + 1]
          /\ UNCHANGED lock
       \/ backend = "native" /\ Return(t, Err) /\ UNCHANGED sock
    /\ UNCHANGED <<backend, slab, sent, calls>>

\* A connection is taken from the backlog.
AcceptDone(t) ==
    /\ At(t, "accepting")
    /\ \E c \in Made :
        /\ sock[c].via = call[t].obj
        /\ sock' = [sock EXCEPT ![c].via = Nil, ![c].refs = 1]
        /\ call' = [call EXCEPT ![t].op = "insert", ![t].table = "stream", ![t].obj = c]
    /\ UNCHANGED <<backend, slab, lock, sent, calls>>

\* Also when the listener was closed, which only a VM listener can be here.
AcceptFails(t) ==
    /\ At(t, "accepting")
    /\ Return(t, Err)
    /\ sock' = Drop(call[t].clone)
    /\ UNCHANGED <<backend, slab, sent, calls>>

\* tcp_read and tls_read: the native ones keep the lock of the table.
Read(t) ==
    /\ Found(t, "read")
    /\ Wait(t, "reading", Entry(t), IF backend = "vm" THEN {} ELSE {call[t].table})
    /\ UNCHANGED <<backend, slab, sock, sent, calls>>

\* What a read on connection c returns once it returns.  Native results are
\* C strings: with a NUL byte in them there is only an error, and the bytes
\* are gone.  A closed TLS connection is an error, a closed TCP connection is
\* one on the VM (io.EOF) and the empty string natively.
ReadResult(t, c) ==
    IF sock[c].refs = 0 THEN Err
    ELSE IF sock[c].in = "text" \/ (sock[c].in = "nul" /\ backend = "vm") THEN Ok(<<"data", c>>)
    ELSE IF sock[c].in = "nul" \/ backend = "vm" \/ call[t].tls THEN Err
    ELSE Ok("")

ReadDone(t) ==
    /\ At(t, "reading")
    /\ LET c == call[t].obj IN
        /\ sock[c].refs = 0 \/ sock[c].in # "none" \/ ~sock[c].peer
        /\ Return(t, ReadResult(t, c))
        /\ sock' = IF sock[c].refs = 0 THEN sock ELSE [sock EXCEPT ![c].in = "none"]
    /\ UNCHANGED <<backend, slab, sent, calls>>

\* tcp_write and tls_write, on the thread of the VM or with the table locked.
Write(t) ==
    /\ Found(t, "write")
    /\ Wait(t, "writing", Entry(t), IF backend = "vm" THEN {} ELSE {call[t].table})
    /\ UNCHANGED <<backend, slab, sock, sent, calls>>

WriteDone(t) ==
    /\ At(t, "writing")
    /\ LET c == call[t].obj IN
        \/ /\ ~sock[c].peer
           /\ Return(t, Err) /\ UNCHANGED sock
        \/ /\ sock[c].peer /\ ~sock[c].full
           /\ Return(t, Ok("")) /\ sock' = [sock EXCEPT ![c].full = TRUE]
    /\ UNCHANGED <<backend, slab, sent, calls>>

\* Nothing can be written to c until its peer reads.
Stuck(c) == sock[c].full /\ sock[c].peer

\* The native close: setting the slot to None drops the connection.  Dropping
\* a TLS connection sends its peer a last message (SSL_shutdown), and waits
\* with the table locked while nothing can be written.
CloseWaits(t) ==
    /\ backend = "native" /\ Found(t, "close")
    /\ call[t].table = "tls" /\ Stuck(Entry(t))
    /\ Wait(t, "close", Entry(t), {"tls"})
    /\ UNCHANGED <<backend, slab, sock, sent, calls>>

CloseNative(t) ==
    /\ backend = "native" /\ At(t, "close") /\ lock[call[t].table] \in {Nobody, t}
    /\ Valid(call[t].table, call[t].h)
    /\ call[t].table = "tls" => ~Stuck(Entry(t))
    /\ slab' = [slab EXCEPT ![call[t].table][call[t].h + 1] = Nil]
    /\ sock' = Drop(Entry(t))
    /\ Return(t, Ok(""))
    /\ UNCHANGED <<backend, sent, calls>>

\* The close of the VM looks up, closes without the mutex, then frees the
\* slot; an error of Close is the result, but the slot is freed all the same.
CloseLookup(t) ==
    /\ backend = "vm" /\ Found(t, "close")
    /\ Wait(t, "closing", Entry(t), {})
    /\ UNCHANGED <<backend, slab, sock, sent, calls>>

\* Mutant: the slot is freed, the connection is not closed.
MutCloseSock(t) ==
    /\ At(t, "closing")
    /\ Wait(t, "clearing", call[t].obj, {})
    /\ UNCHANGED <<backend, slab, sock, sent, calls>>

CloseSock(t) ==
    /\ At(t, "closing")
    /\ Wait(t, "clearing", call[t].obj, {})
    /\ sock' = Drop(call[t].obj)
    /\ UNCHANGED <<backend, slab, sent, calls>>

CloseSlot(t) ==
    /\ At(t, "clearing")
    /\ slab' = [slab EXCEPT ![call[t].table][call[t].h + 1] = Nil]
    /\ \E r \in {Ok(""), Err} : Return(t, r)
    /\ UNCHANGED <<backend, sock, sent, calls>>

-----------------------------------------------------------------------------
\* Peers

\* A client connects to a listener that is open.
PeerConnect(l) ==
    /\ sock[l].kind = "listener" /\ sock[l].refs > 0 /\ New \in Sock
    /\ sock' = [sock EXCEPT ![New] = Conn(l, 0)]
    /\ UNCHANGED <<backend, slab, lock, call, sent, calls>>

\* A builtin waits for the answer to its handshake.
Greeting(c) == \E t \in Task : At(t, "handshake") /\ call[t].obj = c

PeerSend(c, data) ==
    /\ sock[c].kind = "conn" /\ sock[c].peer /\ sock[c].in = "none" /\ sent < MaxSends
    /\ ~Greeting(c)
    /\ sock' = [sock EXCEPT ![c].in = data]
    /\ sent' = sent + 1
    /\ UNCHANGED <<backend, slab, lock, call, calls>>

\* The peer answers the handshake, well or badly.
PeerHello(c) ==
    /\ Greeting(c) /\ sock[c].peer /\ sock[c].in = "none"
    /\ sock' = [sock EXCEPT ![c].in = "hello"]
    /\ UNCHANGED <<backend, slab, lock, call, sent, calls>>

\* The peer reads, so that more can be written.
PeerReads(c) ==
    /\ sock[c].kind = "conn" /\ sock[c].peer /\ sock[c].full
    /\ sock' = [sock EXCEPT ![c].full = FALSE]
    /\ UNCHANGED <<backend, slab, lock, call, sent, calls>>

PeerLeaves(c) ==
    /\ sock[c].kind = "conn" /\ sock[c].peer
    /\ sock' = [sock EXCEPT ![c].peer = FALSE]
    /\ UNCHANGED <<backend, slab, lock, call, sent, calls>>

-----------------------------------------------------------------------------

\* The steps inside a builtin.
Step(t) == \/ Make(t) \/ Handshake(t) \/ Insert(t) \/ Refuse(t)
           \/ Accept(t) \/ AcceptDone(t) \/ AcceptFails(t)
           \/ Read(t) \/ ReadDone(t) \/ Write(t) \/ WriteDone(t)
           \/ CloseWaits(t) \/ CloseNative(t) \/ CloseLookup(t) \/ CloseSock(t) \/ CloseSlot(t)

Peers == \E s \in Sock : \/ PeerConnect(s) \/ PeerHello(s) \/ PeerReads(s) \/ PeerLeaves(s)
                         \/ \E data \in {"text", "nul"} : PeerSend(s, data)

Next == \/ \E t \in Task : Step(t) \/ \E b \in Builtins : Begin(t, b)
        \/ Peers

Spec == Init /\ [][Next]_vars

\* A builtin that can go on does; a blocked accept need not fail by itself.
Progress(t) == Step(t) /\ (At(t, "accepting") /\ call'[t].op = "idle"
                              => sock[call[t].obj].refs = 0)

\* A thread that waits for a mutex gets it some time.
GetsLock(t) == \/ Insert(t) \/ Refuse(t) \/ Accept(t) \/ Read(t) \/ Write(t)
               \/ CloseWaits(t) \/ CloseNative(t)

FairSpec == Spec /\ \A t \in Task : WF_vars(Progress(t)) /\ SF_vars(GetsLock(t))

-----------------------------------------------------------------------------
\* Properties

\* The slots that hold s, the builtins that own a descriptor of it, and the
\* closes that have closed s and are about to free its slot.
Places      == UNION {{k} \X DOMAIN slab[k] : k \in Tables}
Slots(s)    == {x \in Places : slab[x[1]][x[2]] = s}
Carries(t, s) == (call[t].op \in {"handshake", "insert"} /\ call[t].obj = s) \/ call[t].clone = s
Carriers(s) == {t \in Task : Carries(t, s)}
Clears(t, s)  == At(t, "clearing") /\ call[t].obj = s
Clearers(s) == {t \in Task : Clears(t, s)}

Owned(s) == sock[s].refs + Cardinality(Clearers(s))
                = Cardinality(Slots(s)) + Cardinality(Carriers(s))

\* No descriptor is lost or closed twice: every open one belongs to one slot
\* or to one builtin under way; only a slot that the VM is about to free
\* holds something closed.
DescriptorsOwned == \A s \in Made : Owned(s)

\* A close that has closed the entry is about to free slot i of table k.
Freeing(k, i) == \E t \in Task : At(t, "clearing") /\ call[t].table = k /\ call[t].h + 1 = i

\* What the tables name: entries that are open.
Named(k) == {i \in DOMAIN slab[k] : slab[k][i] # Nil /\ ~Freeing(k, i)}
Names(k) == [h \in {i - 1 : i \in Named(k)} |-> slab[k][h + 1]]

Open == [k \in Tables |-> Names(k)]

Promise == INSTANCE HandleSpec WITH open <- Open

\* The tables implement HandleSpec: a handle is only reused for another
\* connection after the first was closed, and none has two handles.
HandlesKept == Promise!Spec

\* A builtin that waits for its peer to answer a handshake, to send or to take
\* data.
Starved(s) == \E t \in Task : /\ call[t].obj = s /\ sock[s].refs > 0 /\ sock[s].peer
                              /\ \/ call[t].op \in {"handshake", "reading"} /\ sock[s].in = "none"
                                 \/ call[t].op \in {"writing", "close"} /\ sock[s].full

\* As long as no peer keeps a builtin waiting for ever, every builtin
\* returns, except an accept to which nobody connects: neither the locks of
\* the tables nor the thread of the VM close a circle.
BuiltinsReturn ==
    (\A s \in Sock : []<>~Starved(s)) =>
        \A t \in Task : call[t].op \notin {"idle", "accepting"} ~> call[t].op \in {"idle", "accepting"}

\* On the VM, a read or an accept ends after another fiber has closed the
\* connection or listener that it waits for.
CloseUnblocks ==
    \A t \in Task : backend = "vm" /\ call[t].op \in {"reading", "accepting"} /\ Slots(call[t].obj) = {}
                        ~> call[t].op \notin {"reading", "accepting"}

=============================================================================
