--------------------------- MODULE RetryTopology ---------------------------
(***************************************************************************)
(* The exchanges, queues and bindings the `handle-messages` workers of a   *)
(* deployment declare, and the copies of a message that travel over them:  *)
(* from the topic exchange to every queue bound for it, from a worker that *)
(* failed to its retry queue, from there back to a primary queue when the  *)
(* TTL runs out, and from the error queue back by a replay.                *)
(*                                                                         *)
(*   rabbitmq/config.py      BrokerTopology: options over the environment  *)
(*   rabbitmq/connection.py  declare_consumer_topology, schedule_retry,    *)
(*                           dead_letter, the `endpoint` header            *)
(*   rabbitmq/consumer.py    _should_process, _recover                     *)
(*   cli/app.py              handle-messages: the options of a worker      *)
(*                                                                         *)
(* InboxConsumer has one endpoint's queues and all of a handler's          *)
(* attempts; here the routing is explicit, several endpoints share a       *)
(* broker, and an attempt is one step that succeeds or fails.  Queues,     *)
(* bindings and queue arguments are durable: they outlive every worker.    *)
(***************************************************************************)
EXTENDS Naturals, FiniteSets, BagsExt, Bags, TLC

CONSTANTS
    Messages,     \* integration messages, each by its routing key
    Names,        \* what an operator types: queues, exchanges, keys, app names
    Modules,      \* --module
    Handles,      \* [Modules -> SUBSET Messages]: the module's handler registry
    Settings,     \* the environment's value of each option
    Workers,      \* worker processes
    Plans,        \* deployments: for each worker the options of its command line
    Unset,        \* an option of the return path that is left empty
    Plain,        \* the arguments of a queue declared without any
    NoApp,        \* the retry_endpoint header is absent
    NoQueue,      \* the message has not failed yet
    NoEndpoint,   \* the endpoint header is absent
    NoCopy,       \* a worker holds nothing
    MaxCrashes,   \* bound: how many workers die
    MaxReplays    \* bound: how many parked messages are replayed

\* "<primary queue>.retry", RETRY_RETURN_SUFFIX.
Derived(queue) == <<queue, "retry">>

Keys == Names \cup Messages \cup {Derived(q) : q \in Names}

\* A binding key is the set of routing keys it matches: one for a direct
\* exchange, more for a pattern such as `trade-logistics.#`.
Topologies ==
    [module : Modules, app : Names,
     primaryExchange : Names, primaryQueue : Names, primaryKeys : SUBSET Keys,
     retryExchange : Names, retryQueue : Names, retryKey : Keys, ttl : Nat,
     deadExchange : Names \cup {Unset}, deadKey : Keys \cup {Unset},
     returnExchange : Names \cup {Unset}, returnKey : Keys \cup {Unset},
     errorExchange : Names, errorQueue : Names, errorKey : Keys,
     delayedRetries : Nat]

\* from_settings, overridden_with: an option given on the command line wins.
Topology(options) == options @@ Settings

Arguments == [exchange : Names, key : Keys, ttl : Nat]

\* What the policy and the return path read of a message's headers, and in
\* `home` the queue it last failed on, which no code reads.
Copy == [msg : Messages, count : Nat, app : Names \cup {NoApp},
         home : Names \cup {NoQueue}, endpoint : (Names \X Keys) \cup {NoEndpoint}]

ASSUME TopologyAssumption ==
    /\ Handles \in [Modules -> SUBSET Messages]
    /\ Plans # {}
    /\ \A p \in Plans : \A w \in Workers : Topology(p[w]) \in Topologies
    /\ Unset \notin Names \cup Keys
    /\ Plain \notin Arguments
    /\ NoApp \notin Names
    /\ NoQueue \notin Names
    /\ NoEndpoint \notin Names \X Keys
    /\ NoCopy \notin Copy
    /\ MaxCrashes \in Nat
    /\ MaxReplays \in Nat

VARIABLES
    plan,       \* the deployment: what each worker is started with
    queues,     \* the arguments of every queue declared so far
    bindings,   \* the bindings declared so far
    ready,      \* a bag: how many of each <<queue, copy>> wait to be delivered
    published,  \* messages the relay has published
    pc,         \* where each worker is
    held,       \* the copy it is processing
    handled,    \* <<m, q>>: a worker of queue q got through m
    dropped,    \* copies of failed messages that went nowhere
    crashes,
    replays

broker == <<queues, bindings>>
vars == <<plan, broker, ready, published, pc, held, handled, dropped, crashes, replays>>

-----------------------------------------------------------------------------
(* BrokerTopology.                                                         *)

T(w) == Topology(plan[w])

Either(option, default) == IF option = Unset THEN default ELSE option

DeadExchange(t)   == Either(t.deadExchange, t.retryExchange)
\* Mutation: derived from the app name instead of the primary queue.
DeadKeyOfApp(t)   == Either(t.deadKey, Derived(t.app))
DeadKey(t)        == Either(t.deadKey, Derived(t.primaryQueue))
ReturnExchange(t) == Either(t.returnExchange, DeadExchange(t))
ReturnKey(t)      == Either(t.returnKey, DeadKey(t))

Binding(exchange, queue, keys) == [exchange |-> exchange, queue |-> queue, keys |-> keys]

\* Mutation: the primary queue takes the way into the retry queue as well.
RetryKeyBindings(t) == {Binding(t.primaryExchange, t.primaryQueue, t.primaryKeys),
                        Binding(ReturnExchange(t), t.primaryQueue, {ReturnKey(t)}),
                        Binding(t.retryExchange, t.primaryQueue, {t.retryKey})}

\* Mutation: the second binding is missing.
OneBinding(t) == {Binding(t.primaryExchange, t.primaryQueue, t.primaryKeys)}

\* The primary queue's two bindings: what it consumes, and its own retries.
PrimaryBindings(t) == {Binding(t.primaryExchange, t.primaryQueue, t.primaryKeys),
                       Binding(ReturnExchange(t), t.primaryQueue, {ReturnKey(t)})}

RetryBinding(t) == Binding(t.retryExchange, t.retryQueue, {t.retryKey})
ErrorBinding(t) == Binding(t.errorExchange, t.errorQueue, {t.errorKey})

\* x-dead-letter-exchange, x-dead-letter-routing-key and x-message-ttl.
RetryArgs(t) == [exchange |-> DeadExchange(t), key |-> DeadKey(t), ttl |-> t.ttl]

\* Mutation: a replay goes to the exchange the message first arrived on.
FirstArrival(t, m) == <<t.primaryExchange, m>>

\* _endpoint_descriptor: the exchange and key a replay is to use.
EndpointDescriptor(t, m) == <<DeadExchange(t), DeadKey(t)>>

-----------------------------------------------------------------------------
(* The broker.                                                             *)

Routed(exchange, key) ==
    {b.queue : b \in {b \in bindings : b.exchange = exchange /\ key \in b.keys}}

In(qs, d) == SetToBag({<<q, d>> : q \in qs})

\* A copy without a queue to go to is dropped; the publisher is not told.
Lost(qs, d) == IF qs = {} THEN {d} ELSE {}

Init ==
    /\ plan \in Plans
    /\ queues = <<>>
    /\ bindings = {}
    /\ ready = EmptyBag
    /\ published = {}
    /\ pc = [w \in Workers |-> "down"]
    /\ held = [w \in Workers |-> NoCopy]
    /\ handled = {}
    /\ dropped = {}
    /\ crashes = 0
    /\ replays = 0

\* A relay publishes m to the topic exchange.
Publish(m) ==
    /\ m \notin published
    /\ published' = published \cup {m}
    /\ ready' = ready (+) In(Routed(Settings.primaryExchange, m),
                             [msg |-> m, count |-> 0, app |-> NoApp,
                              home |-> NoQueue, endpoint |-> NoEndpoint])
    /\ UNCHANGED <<plan, broker, pc, held, handled, dropped, crashes, replays>>

\* The TTL of a copy in a retry queue runs out: it is dead-lettered where the
\* queue's arguments say, but never back into the same queue (a cycle).
RetryExpires(q, d) ==
    /\ <<q, d>> \in DOMAIN ready
    /\ queues[q] # Plain
    /\ LET back == Routed(queues[q].exchange, queues[q].key) \ {q}
       IN  /\ ready' = BagRemove(ready, <<q, d>>) (+) In(back, d)
           /\ dropped' = dropped \cup Lost(back, d)
    /\ UNCHANGED <<plan, broker, published, pc, held, handled, crashes, replays>>

Replayed(d) ==
    {[msg |-> d.msg, count |-> d.count, app |-> d.app, home |-> d.home, endpoint |-> NoEndpoint],
     [msg |-> d.msg, count |-> 0, app |-> NoApp, home |-> d.home, endpoint |-> NoEndpoint]}

\* A replay service reads an error queue and republishes as the endpoint
\* header says, with the other headers as they were or without any.
Replay(q, d) ==
    /\ <<q, d>> \in DOMAIN ready
    /\ d.endpoint # NoEndpoint
    /\ replays < MaxReplays
    /\ replays' = replays + 1
    /\ \E again \in Replayed(d) :
         LET to == Routed(d.endpoint[1], d.endpoint[2])
         IN  /\ ready' = BagRemove(ready, <<q, d>>) (+) In(to, again)
             /\ dropped' = dropped \cup Lost(to, again)
    /\ UNCHANGED <<plan, broker, published, pc, held, handled, crashes>>

-----------------------------------------------------------------------------
(* A worker starting: declare_consumer_topology, queue by queue.           *)

\* A durable queue is declared again only with the arguments it has.
Declarable(q, args) == q \in DOMAIN queues => queues[q] = args

Declare(w, from, q, args, bound, to) ==
    /\ pc[w] \in from
    /\ IF Declarable(q, args)
         THEN /\ queues' = [x \in DOMAIN queues \cup {q} |-> IF x = q THEN args ELSE queues[x]]
              /\ bindings' = bindings \cup bound
              /\ pc' = [pc EXCEPT ![w] = to]
         ELSE /\ pc' = [pc EXCEPT ![w] = "refused"]
              /\ UNCHANGED broker
    /\ UNCHANGED <<plan, ready, published, held, handled, dropped, crashes, replays>>

DeclarePrimary(w) ==
    Declare(w, {"down", "refused"}, T(w).primaryQueue, Plain,
            PrimaryBindings(T(w)), "primary declared")

DeclareRetry(w) ==
    Declare(w, {"primary declared"}, T(w).retryQueue, RetryArgs(T(w)),
            {RetryBinding(T(w))}, "retry declared")

\* Mutation: the error queue is given the retry queue's arguments.
DeclareErrorExpiring(w) ==
    Declare(w, {"retry declared"}, T(w).errorQueue, RetryArgs(T(w)),
            {ErrorBinding(T(w))}, "idle")

DeclareError(w) ==
    Declare(w, {"retry declared"}, T(w).errorQueue, Plain,
            {ErrorBinding(T(w))}, "idle")

Start(w) == DeclarePrimary(w) \/ DeclareRetry(w) \/ DeclareError(w)

-----------------------------------------------------------------------------
(* A worker consuming.                                                     *)

\* _should_process: of a subscribed type, and not another endpoint's retry.
ShouldProcess(w, d) ==
    /\ d.msg \in Handles[T(w).module]
    /\ d.count > 0 => d.app = T(w).app

Deliver(w, d) ==
    /\ pc[w] = "idle"
    /\ <<T(w).primaryQueue, d>> \in DOMAIN ready
    /\ ShouldProcess(w, d)
    /\ ready' = BagRemove(ready, <<T(w).primaryQueue, d>>)
    /\ pc' = [pc EXCEPT ![w] = "handling"]
    /\ held' = [held EXCEPT ![w] = d]
    /\ UNCHANGED <<plan, broker, published, handled, dropped, crashes, replays>>

\* A copy of no interest is acknowledged: if it had failed before, that was it.
Ignore(w, d) ==
    /\ pc[w] = "idle"
    /\ <<T(w).primaryQueue, d>> \in DOMAIN ready
    /\ ~ShouldProcess(w, d)
    /\ ready' = BagRemove(ready, <<T(w).primaryQueue, d>>)
    /\ dropped' = dropped \cup (IF d.home = NoQueue THEN {} ELSE {d})
    /\ UNCHANGED <<plan, broker, published, pc, held, handled, crashes, replays>>

Succeed(w) ==
    /\ pc[w] = "handling"
    /\ handled' = handled \cup {<<held[w].msg, T(w).primaryQueue>>}
    /\ pc' = [pc EXCEPT ![w] = "ack"]
    /\ UNCHANGED <<plan, broker, ready, published, held, dropped, crashes, replays>>

\* The worker's copy of the failed message goes out; the delivery is next to be
\* acknowledged, wherever that copy went.
Send(w, exchange, key, copy) ==
    /\ LET to == Routed(exchange, key)
       IN  /\ ready' = ready (+) In(to, copy)
           /\ dropped' = dropped \cup Lost(to, copy)
    /\ pc' = [pc EXCEPT ![w] = "ack"]
    /\ UNCHANGED <<plan, broker, published, held, handled, crashes, replays>>

\* Mutation: the redelivery counter is not carried on.
RetriedUncounted(t, d) ==
    [msg |-> d.msg, count |-> d.count, app |-> t.app,
     home |-> t.primaryQueue, endpoint |-> d.endpoint]

\* One redelivery further along, and owned by this endpoint.
Retried(t, d) ==
    [msg |-> d.msg, count |-> d.count + 1, app |-> t.app,
     home |-> t.primaryQueue, endpoint |-> d.endpoint]

\* dispatch raised, and there are delayed retries left.
ScheduleRetry(w) ==
    /\ pc[w] = "handling"
    /\ held[w].count < T(w).delayedRetries
    /\ Send(w, T(w).retryExchange, T(w).retryKey, Retried(T(w), held[w]))

\* The failure attached, and with it where a replay is to go.
Parked(t, d) ==
    [msg |-> d.msg, count |-> d.count, app |-> d.app,
     home |-> t.primaryQueue, endpoint |-> EndpointDescriptor(t, d.msg)]

\* dispatch raised, and there are none.
DeadLetter(w) ==
    /\ pc[w] = "handling"
    /\ held[w].count >= T(w).delayedRetries
    /\ Send(w, T(w).errorExchange, T(w).errorKey, Parked(T(w), held[w]))

\* Mutation: the worker still holds what it has acknowledged.
AckHolding(w) ==
    /\ pc[w] = "ack"
    /\ pc' = [pc EXCEPT ![w] = "idle"]
    /\ UNCHANGED <<plan, broker, ready, published, held, handled, dropped, crashes, replays>>

\* The `finally`.
Ack(w) ==
    /\ pc[w] = "ack"
    /\ pc' = [pc EXCEPT ![w] = "idle"]
    /\ held' = [held EXCEPT ![w] = NoCopy]
    /\ UNCHANGED <<plan, broker, ready, published, handled, dropped, crashes, replays>>

Busy == {"handling", "ack"}

\* The process dies, between two declarations as well; the broker requeues
\* what it had not acknowledged.
Crash(w) ==
    /\ pc[w] \notin {"down", "refused"}
    /\ crashes < MaxCrashes
    /\ crashes' = crashes + 1
    /\ pc' = [pc EXCEPT ![w] = "down"]
    /\ held' = [held EXCEPT ![w] = NoCopy]
    /\ ready' = IF pc[w] \in Busy
                  THEN ready (+) In({T(w).primaryQueue}, held[w])
                  ELSE ready
    /\ UNCHANGED <<plan, broker, published, handled, dropped, replays>>

-----------------------------------------------------------------------------
Consume(w) ==
    \/ \E p \in DOMAIN ready : Deliver(w, p[2]) \/ Ignore(w, p[2])
    \/ Succeed(w)
    \/ ScheduleRetry(w)
    \/ DeadLetter(w)
    \/ Ack(w)

Work(w) == Start(w) \/ Consume(w)

Expire == \E p \in DOMAIN ready : RetryExpires(p[1], p[2])

Next ==
    \/ \E m \in Messages : Publish(m)
    \/ Expire
    \/ \E p \in DOMAIN ready : Replay(p[1], p[2])
    \/ \E w \in Workers : Work(w) \/ Crash(w)

Spec == Init /\ [][Next]_vars

\* Each worker's operator starts it again, and the broker expires every TTL.
Fairness == (\A w \in Workers : WF_vars(Work(w))) /\ WF_vars(Expire)

FairSpec == Spec /\ Fairness

-----------------------------------------------------------------------------
(* What a deployment has to respect.                                       *)

PathUnset(t) == {t.deadExchange, t.deadKey, t.returnExchange, t.returnKey} = {Unset}

\* "The two ends of one hop ... must agree."
Joined(t) == ReturnExchange(t) = DeadExchange(t) /\ ReturnKey(t) = DeadKey(t)

WayBack(t)      == <<DeadExchange(t), DeadKey(t)>>
RetryAddress(t) == <<t.retryExchange, t.retryKey>>
ErrorAddress(t) == <<t.errorExchange, t.errorKey>>

\* Workers of different queues share no retry queue and no address of one; what
\* is left unset needs no care.
Apart(s, t) ==
    /\ s.retryQueue # t.retryQueue
    /\ RetryAddress(s) # RetryAddress(t)
    /\ WayBack(s) # WayBack(t) \/ (PathUnset(s) /\ PathUnset(t))

\* The three kinds of queue and of address do not get mixed up.
Orderly(s, t) ==
    /\ s.primaryQueue \notin {t.retryQueue, t.errorQueue}
    /\ s.retryQueue # t.errorQueue
    /\ WayBack(s) \notin {RetryAddress(t), ErrorAddress(t)}
    /\ RetryAddress(s) # ErrorAddress(t)
    /\ t.primaryExchange \notin {s.retryExchange, DeadExchange(s), s.errorExchange}
    /\ ErrorAddress(s) = ErrorAddress(t) => s.errorQueue = t.errorQueue

KeptApart ==
    \A v, w \in Workers :
        /\ PathUnset(T(w)) \/ Joined(T(w))
        /\ IF T(v).primaryQueue = T(w).primaryQueue
             THEN T(v) = T(w)
             ELSE Apart(T(v), T(w))
        /\ Orderly(T(v), T(w))

-----------------------------------------------------------------------------
(* Properties.                                                             *)

TypeOK ==
    /\ plan \in Plans
    /\ DOMAIN queues \subseteq Names
    /\ \A q \in DOMAIN queues : queues[q] \in Arguments \cup {Plain}
    /\ bindings \subseteq [exchange : Names, queue : DOMAIN queues, keys : SUBSET Keys]
    /\ DOMAIN ready \subseteq (DOMAIN queues) \X Copy
    /\ \A p \in DOMAIN ready : ready[p] \in Nat \ {0}
    /\ published \subseteq Messages
    /\ pc \in [Workers -> {"down", "refused", "primary declared", "retry declared", "idle"}
                          \cup Busy]
    /\ held \in [Workers -> Copy \cup {NoCopy}]
    /\ handled \subseteq Messages \X Names
    /\ dropped \subseteq Copy
    /\ crashes \in 0..MaxCrashes
    /\ replays \in 0..MaxReplays
    /\ \A w \in Workers : pc[w] \in Busy <=> held[w] # NoCopy

PrimaryQueues == {T(w).primaryQueue : w \in Workers}

\* "A retry must return to the queue it failed on and to nothing else": no
\* primary queue has a failed message of another one, and no worker works on one
\* (the direct exchange and the key of the second binding), for endpoints that
\* are kept apart - under one app name as under several.
RetryComesHome ==
    KeptApart =>
        /\ \A p \in DOMAIN ready :
             p[1] \in PrimaryQueues => p[2].home \in {p[1], NoQueue}
        /\ \A w \in Workers :
             held[w] # NoCopy => held[w].home \in {T(w).primaryQueue, NoQueue}

\* A message that failed is never dropped: the broker routes each retry, each
\* expiry, each parked copy and each replay of it, and no worker ignores it.
NothingDropped == KeptApart => dropped = {}

\* "A replay service ... can republish to it and the message lands back where it
\* failed, not fanned out to every subscriber of the original topic."
ReplayLands ==
    KeptApart =>
        \A p \in DOMAIN ready : LET e == p[2].endpoint IN
            e # NoEndpoint => Routed(e[1], e[2]) = {p[2].home}

\* Why.  The broker holds nothing but what workers declared, each in its order.
BindingsOf(t) == PrimaryBindings(t) \cup {RetryBinding(t), ErrorBinding(t)}
Reachable(w)  == PrimaryBindings(T(w)) \subseteq bindings
Up            == {"idle"} \cup Busy

DeclaredInv ==
    /\ \A b \in bindings : \E w \in Workers : b \in BindingsOf(T(w))
    /\ \A q \in DOMAIN queues : queues[q] # Plain =>
         \E w \in Workers : q = T(w).retryQueue /\ queues[q] = RetryArgs(T(w)) /\ Reachable(w)
    /\ \A w \in Workers :
         /\ pc[w] \notin {"down", "refused"} => Reachable(w)
         /\ pc[w] \in {"retry declared"} \cup Up => RetryBinding(T(w)) \in bindings
         /\ pc[w] \in Up => ErrorBinding(T(w)) \in bindings

\* And a copy that failed is on the way of the endpoint it failed for: in its
\* primary, retry or error queue, under its app name, with its way back written
\* down once it is parked.
Fresh(d)  == d.home = NoQueue /\ d.count = 0 /\ d.endpoint = NoEndpoint
Own(t, d) == /\ d.home = t.primaryQueue
             /\ d.count > 0 => d.app = t.app
             /\ d.msg \in Handles[t.module]
OnItsWay(t, q, d) ==
    /\ Own(t, d)
    /\ \/ d.endpoint = NoEndpoint /\ q \in {t.primaryQueue, t.retryQueue}
       \/ d.endpoint = WayBack(t) /\ q = t.errorQueue

WayInv ==
    /\ \A p \in DOMAIN ready :
         \/ Fresh(p[2])
         \/ \E w \in Workers : OnItsWay(T(w), p[1], p[2]) /\ Reachable(w)
    /\ \A w \in Workers : held[w] # NoCopy =>
         /\ held[w].msg \in Handles[T(w).module]
         /\ held[w].endpoint = NoEndpoint
         /\ Fresh(held[w]) \/ Own(T(w), held[w])
    /\ dropped = {}

\* The occurrences in a bag of elements of S, each with its number.
Occurrences(B, S) == UNION {{p} \X (1..B[p]) : p \in DOMAIN B \cap S}

\* Where q's endpoint has its copies of m: in q if they have not failed yet, on
\* their way anywhere once they have; and with the workers of q that are at it.
Mine(m, q) == {p \in DOMAIN ready :
                 p[2].msg = m /\ (p[2].home = q \/ (p[2].home = NoQueue /\ p[1] = q))}
AtWork(m, q) == {w \in Workers : /\ T(w).primaryQueue = q
                                 /\ pc[w] = "handling"
                                 /\ held[w].msg = m}

CopiesOf(m, q) == Cardinality(Occurrences(ready, Mine(m, q))) + Cardinality(AtWork(m, q))

\* Retries do not multiply: an endpoint has one copy of a message, and one more
\* for each worker that died between sending its copy and acknowledging.
OneCopyEach ==
    KeptApart => \A m \in Messages, q \in PrimaryQueues : CopiesOf(m, q) <= 1 + crashes

Settled(m, q) ==
    \/ <<m, q>> \in handled
    \/ \E p \in DOMAIN ready :
         p[2].msg = m /\ p[2].home = q /\ p[2].endpoint # NoEndpoint

Waits(m, q) == \E p \in DOMAIN ready : p[1] = q /\ p[2].msg = m

\* A message in the queue of an endpoint that subscribes to it ends up handled
\* there or parked as that queue's, whatever the other endpoints do.
EventuallySettledHere ==
    \A m \in Messages, w \in Workers :
        (KeptApart /\ m \in Handles[T(w).module] /\ Waits(m, T(w).primaryQueue))
            ~> Settled(m, T(w).primaryQueue)

\* No worker is refused a queue of its topology, which would leave its primary
\* queue bound and filling and nobody consuming it: endpoints may share an error
\* queue and workers all of an endpoint's, whoever declares first and whoever
\* died between two declarations.
AllStart == KeptApart => \A w \in Workers : pc[w] # "refused"

\* Why: what was declared without arguments is somebody's primary or error queue.
PlainInv ==
    \A q \in DOMAIN queues : queues[q] = Plain =>
        \E w \in Workers : q \in {T(w).primaryQueue, T(w).errorQueue}
=============================================================================
