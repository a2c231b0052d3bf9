-------------------------- MODULE MCInboxConsumer --------------------------
(* Instances of InboxConsumer for TLC. *)
EXTENDS InboxConsumer

CONSTANTS m1, m2, h1, h2, w1, w2, customs, shipment

\* Every message type has both handlers, in registration order.
BothHandlers == [m \in Messages |-> <<h1, h2>>]

\* Two endpoints that were pointed at one queue.
TwoApps == [c \in Consumers |-> IF c = w1 THEN customs ELSE shipment]

\* All workers of the queue run under one --app-name, as README runs them.
SameApp == [c \in Consumers |-> customs]
=============================================================================
