----------------------------- MODULE HandleSpec -----------------------------
(***************************************************************************)
(* What the tables of connections promise to a Sydney program, whichever   *)
(* backend runs it: a number names at most one open connection or          *)
(* listener, an open connection has one number, and a number only comes to *)
(* name another connection after the first was closed.                     *)
(***************************************************************************)
VARIABLE open  \* table -> number -> the connection or listener it names

Named(k) == {open[k][h] : h \in DOMAIN open[k]}

Init == open = [k \in DOMAIN open |-> <<>>]

Give(k, h, o) ==
    /\ h \notin DOMAIN open[k]
    /\ \A j \in DOMAIN open : o \notin Named(j)
    /\ open' = [open EXCEPT ![k] = [i \in DOMAIN @ \cup {h} |-> IF i = h THEN o ELSE @[i]]]

Take(k, h) ==
    /\ h \in DOMAIN open[k]
    /\ open' = [open EXCEPT ![k] = [i \in DOMAIN @ \ {h} |-> @[i]]]

Next == \E k \in DOMAIN open :
            \/ \E h \in DOMAIN open'[k] : Give(k, h, open'[k][h])
            \/ \E h \in DOMAIN open[k] : Take(k, h)

Spec == Init /\ [][Next]_open

=============================================================================
