----------------------------- MODULE HttpServer -----------------------------
(***************************************************************************)
(* The server of the standard library (stdlib/http/http.sy, listen and     *)
(* handle) as a program that uses the network builtins of module Sockets:  *)
(* the main task accepts in a loop and spawns a handler per connection.    *)
(* A request comes in one piece; routing and the text of requests and      *)
(* responses are left out.                                                 *)
(***************************************************************************)
EXTENDS Sockets

CONSTANT Main  \* the task that runs listen; the others become handlers

VARIABLES at,    \* what a task does next or is doing: a builtin, or where it is
          h,     \* the handle of its listener or connection
          asked  \* tasks that are in the builtin

serverVars == <<vars, at, h, asked>>

Handlers == Task \ {Main}

ServerInit ==
    /\ Init
    /\ at = [t \in Task |-> IF t = Main THEN "listen" ELSE "off"]
    /\ h = [t \in Task |-> -1]
    /\ asked = {}

\* The net functions: net:listen, accept, read, write, close.
Builtin(t) == <<at[t], IF t = Main THEN "listener" ELSE "stream", IF at[t] = "listen" THEN -1 ELSE h[t]>>

Ask(t) ==
    /\ at[t] \in {"listen", "accept", "read", "write", "close"} /\ t \notin asked
    /\ Begin(t, Builtin(t))
    /\ asked' = asked \cup {t}
    /\ UNCHANGED <<at, h>>

Answered(t) == t \in asked /\ At(t, "idle")
Result(t)   == call[t].result
Failed(t)   == Result(t) = Err

\* listen: up to its loop, and one round of it.
Listening ==
    /\ Answered(Main)
    /\ asked' = asked \ {Main}
    /\ \/ /\ at[Main] = "listen"
          /\ at' = [at EXCEPT ![Main] = IF Failed(Main) THEN "done" ELSE "accept"]
          /\ h' = [h EXCEPT ![Main] = IF Failed(Main) THEN @ ELSE Result(Main)[2]]
       \/ /\ at[Main] = "accept" /\ Failed(Main)
          /\ UNCHANGED <<at, h>>
       \/ /\ at[Main] = "accept" /\ ~Failed(Main)
          /\ \E t \in Handlers :
                /\ at[t] = "off"
                /\ at' = [at EXCEPT ![t] = "read"]
                /\ h' = [h EXCEPT ![t] = Result(Main)[2]]
    /\ UNCHANGED vars

\* handle: what it does after each of its calls.  The branch that has
\* written the response returns without closing the connection.
Handling(t) ==
    /\ Answered(t)
    /\ asked' = asked \ {t}
    /\ at' = [at EXCEPT ![t] = CASE at[t] = "read" /\ (Failed(t) \/ Result(t) = Ok("")) -> "close"
                                 [] at[t] = "read" -> "write"
                                 [] OTHER -> "done"]
    /\ UNCHANGED <<vars, h>>

Run(t) == IF t = Main THEN Listening ELSE Handling(t)

ServerNext ==
    \/ \E t \in Task : Ask(t) \/ Run(t)
    \/ (\E t \in Task : Step(t)) /\ UNCHANGED <<at, h, asked>>
    \/ Peers /\ UNCHANGED <<at, h, asked>>

ServerSpec ==
    /\ ServerInit /\ [][ServerNext]_serverVars
    /\ \A t \in Task : /\ WF_serverVars(Ask(t)) /\ WF_serverVars(Run(t))
                       /\ WF_serverVars(Progress(t) /\ UNCHANGED <<at, h, asked>>)
                       /\ SF_serverVars(GetsLock(t) /\ UNCHANGED <<at, h, asked>>)

\* "Blocks until a client connects. Returns a new stream handle for the
\* accepted connection" (sydney_rt/src/socket.rs): once a client has
\* connected, the accept of the server returns.
AcceptReturns == At(Main, "insert") ~> ~At(Main, "insert")

=============================================================================
