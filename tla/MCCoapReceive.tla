---------------------------- MODULE MCCoapReceive ----------------------------
(* Two peers and what they may send: requests, also one in an ACK; an ACK and a response  *)
(* for messages of the host, a separate response whose ID is that of a message of the    *)
(* host, and a datagram with an unknown code.                                            *)
EXTENDS CoapReceive

CONSTANTS p1, p2

Sent(p, k, t, i) == [src |-> p, kind |-> k, type |-> t, id |-> i]

Traffic ==
    {Sent(p1, "request", "CON", 1), Sent(p2, "request", "CON", 1), Sent(p1, "request", "ACK", 2),
     Sent(p2, "empty", "ACK", 3), Sent(p1, "response", "NON", 4), Sent(p2, "response", "CON", 4),
     Sent(p2, "invalid", "CON", 2)}

Requests ==
    {Sent(p1, "request", "CON", 1), Sent(p1, "request", "NON", 2), Sent(p2, "request", "CON", 1)}
=============================================================================
