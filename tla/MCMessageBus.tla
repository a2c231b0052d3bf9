--------------------------- MODULE MCMessageBus ----------------------------
(* Small instances of MessageBus for TLC. *)
EXTENDS MessageBus

CONSTANTS m1, m2, h1, h2, customs

\* Every message has all the handlers, in registration order.
BothHandlers == [m \in Messages |-> <<h1, h2>>]
SameApp == [c \in Consumers |-> customs]
=============================================================================
