------------------------- MODULE ReliableDelivery -------------------------
(***************************************************************************)
(* What the consuming side of the message bus promises, without queues,    *)
(* retries, acknowledgements or processes: every message offered to it has *)
(* each subscribed handler's effect applied at most once, and in the end   *)
(* either every handler has been applied or the message is parked in the   *)
(* error queue for a human.                                                *)
(***************************************************************************)
EXTENDS Naturals

CONSTANTS Messages,      \* the integration messages
          Handlers,      \* the message handlers of the consuming module
          Targets        \* [Messages -> SUBSET Handlers]: who subscribes to what

VARIABLES offered,       \* messages the primary queue has accepted
          effect,        \* effect[<<m, h>>]: how many times h's writes for m were committed
          parked         \* messages that have reached the error queue

vars == <<offered, effect, parked>>

Init == /\ offered = {}
        /\ effect = [k \in Messages \X Handlers |-> 0]
        /\ parked = {}

\* The broker may be handed the same message again: offering twice is a stutter.
Offer(m) == /\ offered' = offered \cup {m}
            /\ UNCHANGED <<effect, parked>>

Apply(m, h) == /\ m \in offered
               /\ h \in Targets[m]
               /\ effect[<<m, h>>] = 0
               /\ effect' = [effect EXCEPT ![<<m, h>>] = 1]
               /\ UNCHANGED <<offered, parked>>

Park(m) == /\ m \in offered
           /\ parked' = parked \cup {m}
           /\ UNCHANGED <<offered, effect>>

Next == \E m \in Messages :
           \/ Offer(m)
           \/ \E h \in Handlers : Apply(m, h)
           \/ Park(m)

Settled(m) == m \in parked \/ \A h \in Targets[m] : effect[<<m, h>>] = 1

\* Progress on a message that is not settled: one more handler, or giving up.
Settle(m) == /\ ~Settled(m)
             /\ Park(m) \/ \E h \in Handlers : Apply(m, h)

SafeSpec == Init /\ [][Next]_vars

Spec == SafeSpec /\ \A m \in Messages : WF_vars(Settle(m))
=============================================================================
