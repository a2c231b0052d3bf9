---------------------------- MODULE MessageBus ----------------------------
(***************************************************************************)
(* The whole bus: the outbox of the module that announces something, the   *)
(* relays that publish it, the broker, and the workers of the module that  *)
(* reacts.  Everything is OutboxRelay's or InboxConsumer's; what is stated *)
(* here is where they meet: a publish the broker accepts is an arrival at  *)
(* the primary queue - or at none, if nothing has declared that queue yet  *)
(* (the publisher declares only the exchange, and a message that no queue  *)
(* is bound for is returned without an exception).                         *)
(***************************************************************************)
EXTENDS Naturals, Sequences, FiniteSets

CONSTANTS
    Messages,
    Relays, Limit, MaxRelayFaults,
    Handlers, Subscribers, Consumers, Apps, NoApp, NoDelivery, Malformed, AppOf,
    ImmediateRetries, DelayedRetries, FaultKinds, MaxWorkerFaults

VARIABLES
    tx, createdAt, clock, row, locked, todo, marked, published, relayFaults,
    declared, primary, retry, parked, inbox, effect, arrived, workerFaults,
    pc, held, attached, at, tries, failed

\* A message reaches the queue once, and once more for each failed publish or pass.
MaxPublish == 1 + MaxRelayFaults

Out == INSTANCE OutboxRelay
         WITH faults <- relayFaults, MaxFaults <- MaxRelayFaults, Unpublishable <- {}
In == INSTANCE InboxConsumer
         WITH faults <- workerFaults, MaxFaults <- MaxWorkerFaults

ASSUME BusAssumption ==
    /\ Limit \in Nat \ {0}
    /\ MaxRelayFaults \in Nat
    /\ Subscribers \in [Messages -> Seq(Handlers)]
    /\ AppOf \in [Consumers -> Apps]
    /\ NoApp \notin Apps
    /\ ImmediateRetries \in Nat
    /\ DelayedRetries \in Nat
    /\ MaxWorkerFaults \in Nat
    /\ FaultKinds \subseteq In!AllFaultKinds
    /\ Malformed \subseteq Messages
    /\ NoDelivery \notin In!Delivery

outVars == <<tx, createdAt, clock, row, locked, todo, marked, published, relayFaults>>
inVars  == <<declared, primary, retry, parked, inbox, effect, arrived, workerFaults,
             pc, held, attached, at, tries, failed>>
vars == <<outVars, inVars>>

\* Some worker of the reacting module has run before anything is published:
\* earlier, the broker confirms the message and drops it (In!Arrive), and the
\* relay marks its row Sent.
Init == Out!Init /\ In!Init /\ declared = TRUE

-----------------------------------------------------------------------------
Request(m) == Out!Request(m) /\ UNCHANGED inVars

\* A relay publishes the next row of its batch.
Publish(r, m) == Out!Publish(r, m) /\ In!Arrive(m)

\* The publish raises although the broker has the message, or because it has not.
PublishFails(r, m) ==
    /\ Out!PublishFails(r, m)
    /\ IF published' = published THEN UNCHANGED inVars ELSE In!Arrive(m)

\* The rest of a pass happens between the relay and its database.
Relay(r) ==
    /\ \/ Out!FindPending(r)
       \/ Out!CommitPass(r)
       \/ Out!PassFails(r)
    /\ UNCHANGED inVars

Expire(d) == In!RetryExpires(d) /\ UNCHANGED outVars

Work(c) == In!Work(c) /\ UNCHANGED outVars

Disturb(c) == In!Disturb(c) /\ UNCHANGED outVars

Next ==
    \/ \E m \in Messages : Request(m)
    \/ \E r \in Relays, m \in Messages : Publish(r, m) \/ PublishFails(r, m)
    \/ \E r \in Relays : Relay(r)
    \/ \E d \in In!Delivery : Expire(d)
    \/ \E c \in Consumers : Work(c) \/ Disturb(c)

\* What a relay does of its own accord.
Pass(r) ==
    \/ \E m \in Messages : Publish(r, m)
    \/ /\ Out!FindPending(r) \/ Out!CommitPass(r)
       /\ UNCHANGED inVars

\* As in the parts: relays are run again and again, workers keep working (and
\* are restarted when they end), the broker expires every TTL.
Fairness ==
    /\ \A r \in Relays : WF_vars(Pass(r))
    /\ \A c \in Consumers : WF_vars(Work(c))
    /\ \A d \in In!Delivery : WF_vars(Expire(d))

Spec == Init /\ [][Next]_vars /\ Fairness

-----------------------------------------------------------------------------
(* Properties.                                                             *)

Committed == {m \in Messages : tx[m] = "committed"}

\* At-least-once, from one commit to the other, as a matter of state: a committed
\* message is a pending row, which the next pass publishes, or it is with the
\* consuming side (In!Kept) - at no time only in a confirmation, a mark or an
\* acknowledgement that a failure can undo.
NothingLost == \A m \in Committed : row[m] = "Pending" \/ In!Kept(m)

\* Why: what the queue has accepted is what the relays have published.
Linked == declared /\ arrived = published

\* "They exchange integration messages over RabbitMQ with at-least-once delivery",
\* end to end: exactly the committed messages are offered, each handler's effect is
\* applied at most once, and nothing is given up silently.
Promise == INSTANCE ReliableDelivery
             WITH Targets <- [m \in Messages |-> In!HandlersOf(m)],
                  offered <- Committed
KeepsPromise == Promise!Spec
=============================================================================
