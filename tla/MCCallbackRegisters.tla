------------------------ MODULE MCCallbackRegisters ------------------------
(* Two URLs of one measure, whose sensor is in two groups, and a measure without any; two clients, *)
(* served by two threads.                                                                          *)
EXTENDS CallbackRegisters

CONSTANTS t1, t2, u1, u2, m1, m2, c1, c2

OfOne == [u \in Urls |-> m1]

\* One thread serves the client of c1, the other the client of c2, which also sends a removal
\* of c1: two registrations, a registration and a removal, two removals meet.  The other URL only
\* gets callbacks.
TwoClients ==
    [t \in Threads |->
        {r \in Request : IF r.url = u2 THEN t = t2 /\ r.op = "add" /\ r.callback = c2
                         ELSE IF t = t1 THEN r.callback = c1 ELSE (r.op = "add") = (r.callback = c2)}]
=============================================================================
