------------------------------ MODULE ChannelSpec ------------------------------
(***************************************************************************)
(* What a Sydney channel promises, without ring buffer, run queue or       *)
(* fiber stacks: a channel is two counters and the fibers that wait on it. *)
(*                                                                         *)
(* sent[c] values have been sent and asked[c] values have been asked for.  *)
(* Whoever is ahead by more than the channel can hold waits, the oldest    *)
(* waiter is released first, and a channel never has waiters on both ends. *)
(***************************************************************************)
EXTENDS Integers, Sequences

CONSTANTS Chan,      \* channel identifiers
          Fiber,     \* fibers that may use a channel
          Capacities \* buffer sizes a program asks for

VARIABLES capacity,  \* capacity[c]: size of c's buffer, NotMade before `chan` ran
          sent,      \* sent[c]: values given to c
          asked,     \* asked[c]: values requested from c
          senders,   \* senders[c]: fibers waiting to send, oldest first
          receivers  \* receivers[c]: fibers waiting to receive, oldest first

vars == <<capacity, sent, asked, senders, receivers>>

NotMade == -1

Init ==
    /\ capacity = [c \in Chan |-> NotMade]
    /\ sent = [c \in Chan |-> 0]
    /\ asked = [c \in Chan |-> 0]
    /\ senders = [c \in Chan |-> << >>]
    /\ receivers = [c \in Chan |-> << >>]

Make(c) ==
    /\ capacity[c] = NotMade
    /\ \E k \in Capacities : capacity' = [capacity EXCEPT ![c] = k]
    /\ UNCHANGED <<sent, asked, senders, receivers>>

\* A value more is on offer: it goes to the oldest waiting receiver, or into
\* free space, or its sender waits.
Send(c, f) ==
    /\ capacity[c] # NotMade
    /\ sent' = [sent EXCEPT ![c] = @ + 1]
    /\ \/ /\ sent[c] < asked[c]
          /\ receivers' = [receivers EXCEPT ![c] = Tail(@)]
          /\ UNCHANGED senders
       \/ /\ sent[c] - asked[c] \in 0 .. (capacity[c] - 1)
          /\ UNCHANGED <<senders, receivers>>
       \/ /\ sent[c] - asked[c] >= capacity[c]
          /\ senders' = [senders EXCEPT ![c] = Append(@, f)]
          /\ UNCHANGED receivers
    /\ UNCHANGED <<capacity, asked>>

\* A value more is wanted: if one is on offer the receiver has it, and the
\* oldest waiting sender, if any, is released; otherwise the receiver waits.
Receive(c, f) ==
    /\ capacity[c] # NotMade
    /\ asked' = [asked EXCEPT ![c] = @ + 1]
    /\ \/ /\ sent[c] - asked[c] > capacity[c]
          /\ senders' = [senders EXCEPT ![c] = Tail(@)]
          /\ UNCHANGED receivers
       \/ /\ sent[c] - asked[c] \in 1 .. capacity[c]
          /\ UNCHANGED <<senders, receivers>>
       \/ /\ sent[c] <= asked[c]
          /\ receivers' = [receivers EXCEPT ![c] = Append(@, f)]
          /\ UNCHANGED senders
    /\ UNCHANGED <<capacity, sent>>

Next == \E c \in Chan : Make(c) \/ \E f \in Fiber : Send(c, f) \/ Receive(c, f)

Spec == Init /\ [][Next]_vars
================================================================================
