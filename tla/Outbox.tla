------------------------------- MODULE Outbox -------------------------------
(***************************************************************************)
(* What the threads that call BasicCoapSocketHandler.sendMessage rely on:  *)
(* the socket handler is a first-in first-out outbox.  A message, once     *)
(* accepted, is put on the wire at most once per call, never before a      *)
(* message that was accepted earlier, and nothing else is put on the wire. *)
(* CoapSendBuffer is shown to implement this specification.                *)
(***************************************************************************)
EXTENDS Naturals, Sequences

CONSTANT Messages

VARIABLES accepted,     \* the messages sendMessage took, in the order it took them
          transmitted   \* the messages handed to the datagram channel, in order

outboxVars == <<accepted, transmitted>>

OutboxInit == accepted = <<>> /\ transmitted = <<>>

Accept(m) ==
    /\ accepted' = Append(accepted, m)
    /\ UNCHANGED transmitted

Transmit ==
    /\ Len(transmitted) < Len(accepted)
    /\ transmitted' = Append(transmitted, accepted[Len(transmitted) + 1])
    /\ UNCHANGED accepted

OutboxNext == Transmit \/ \E m \in Messages : Accept(m)

OutboxSpec == OutboxInit /\ [][OutboxNext]_outboxVars
=============================================================================
