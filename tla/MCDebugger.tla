------------------------------- MODULE MCDebugger ------------------------------
(***************************************************************************)
(* The TLC instance of Debugger.                                           *)
(***************************************************************************)
EXTENDS Debugger

\* What the client chooses from: breakpoints, the modes that depend on
\* breakpoints or on the frame of the last stop, an answered question, an
\* unanswered one, and the lines that are no command.
Chosen == {SetMode(m) : m \in {"Continue", "StepOver", "StepOut"}}
            \cup {AddBreakpoint(p) : p \in Pos} \cup {RemoveBreakpoint(<<"a", 1>>)}
            \cup {Query(k) : k \in {"locals", "callstack"} \cup Faulty}
================================================================================
