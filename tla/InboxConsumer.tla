--------------------------- MODULE InboxConsumer ---------------------------
(***************************************************************************)
(* The consuming half of the message bus: the `handle-messages` workers of *)
(* one module, the primary, retry and error queues they share, and the     *)
(* inbox table that deduplicates.                                          *)
(*                                                                         *)
(*   rabbitmq/consumer.py    MessageConsumer: policy applied to a delivery *)
(*   rabbitmq/connection.py  schedule_retry, dead_letter, the topology     *)
(*   inbox/dispatcher.py     InboxMessageDispatcher: immediate retries     *)
(*   inbox/repository.py     was_handled, record                           *)
(*   tables.py               UNIQUE (message_id, handler_name)             *)
(*                                                                         *)
(* A step ends where the code awaits the broker or the database, so the    *)
(* workers interleave exactly where the processes do.  Headers are reduced *)
(* to the two the policy reads: redelivery_count and retry_endpoint.  What *)
(* a handler does is reduced to whether its attempt fails.                 *)
(***************************************************************************)
EXTENDS Naturals, Sequences

CONSTANTS
    Messages,          \* integration messages, by message_id
    Handlers,          \* handler classes, by handler_name
    Subscribers,       \* Messages -> sequence of handlers, in registration order
    Consumers,         \* worker processes draining the primary queue
    Apps,              \* topology.app_name values
    NoApp,             \* the retry_endpoint header is absent
    NoDelivery,        \* a worker holds no delivery
    Malformed,         \* messages of another publisher whose message_id is no UUID
    AppOf,             \* the app name each worker runs under
    ImmediateRetries,  \* --immediate-retries-number, already max(n, 0)
    DelayedRetries,    \* --delayed-retries-number
    FaultKinds,        \* which faults the environment may inject
    MaxFaults,         \* bound: how many of them
    MaxPublish         \* bound: how often the relay hands one message over

\* crash: the process dies.  disconnect: its channel is lost and reopened.
\* commitUnknown: a commit takes effect but reports an error.  refuse: the
\* broker rejects a publish.  cancel: Ctrl-C cancels the worker's task.
AllFaultKinds == {"crash", "disconnect", "commitUnknown", "refuse", "cancel"}

Delivery == [msg : Messages, count : 0..DelayedRetries, endpoint : Apps \cup {NoApp}]

ASSUME ConsumerAssumption ==
    /\ Subscribers \in [Messages -> Seq(Handlers)]
    /\ AppOf \in [Consumers -> Apps]
    /\ NoApp \notin Apps
    /\ ImmediateRetries \in Nat
    /\ DelayedRetries \in Nat
    /\ MaxFaults \in Nat
    /\ MaxPublish \in Nat
    /\ FaultKinds \subseteq AllFaultKinds
    /\ Malformed \subseteq Messages
    /\ NoDelivery \notin Delivery

HandlersOf(m) == {Subscribers[m][i] : i \in DOMAIN Subscribers[m]}

VARIABLES
    declared,   \* the durable queues exist (declare_consumer_topology ran once)
    primary,    \* primary queue: how many copies of each delivery are ready
    retry,      \* retry queue, waiting for the TTL
    parked,     \* messages in the error queue
    inbox,      \* committed inbox rows: <<message_id, handler_name>>
    effect,     \* how many times handler h committed its writes for m
    arrived,    \* how many copies of m the relay got into the primary queue
    faults,     \* faults injected so far
    pc,         \* where each worker is
    held,       \* the delivery a worker is processing
    attached,   \* the channel it was delivered on is still the open one
    at,         \* index of the handler being run (dispatch's for loop)
    tries,      \* attempt number (_run's for loop)
    failed      \* `failures` is not empty

brokerVars == <<declared, primary, retry, parked, arrived>>
dbVars     == <<inbox, effect>>
workVars   == <<held, attached, at, tries, failed>>
vars == <<brokerVars, dbVars, faults, pc, workVars>>

Add(queue, d)  == [queue EXCEPT ![d] = @ + 1]
Take(queue, d) == [queue EXCEPT ![d] = @ - 1]

InDispatch == {"attempt", "handling", "recorded"}
Working    == InDispatch \cup {"recover"}
Busy       == Working \cup {"ack"}

Init ==
    /\ declared \in BOOLEAN
    /\ primary = [d \in Delivery |-> 0]
    /\ retry = [d \in Delivery |-> 0]
    /\ parked = {}
    /\ inbox = {}
    /\ effect = [k \in Messages \X Handlers |-> 0]
    /\ arrived = [m \in Messages |-> 0]
    /\ faults = 0
    /\ pc = [c \in Consumers |-> "down"]
    /\ held = [c \in Consumers |-> NoDelivery]
    /\ attached = [c \in Consumers |-> FALSE]
    /\ at = [c \in Consumers |-> 1]
    /\ tries = [c \in Consumers |-> 1]
    /\ failed = [c \in Consumers |-> FALSE]

-----------------------------------------------------------------------------
(* The relay's side of the queue, and the broker.                          *)

\* The relay's publish reaches the primary exchange.  Without a queue bound to
\* it the broker drops the message and still confirms it.
Arrive(m) ==
    /\ arrived[m] < MaxPublish
    /\ IF declared
         THEN /\ primary' = Add(primary, [msg |-> m, count |-> 0, endpoint |-> NoApp])
              /\ arrived' = [arrived EXCEPT ![m] = @ + 1]
         ELSE UNCHANGED <<primary, arrived>>
    /\ UNCHANGED <<declared, retry, parked, dbVars, faults, pc, workVars>>

\* The TTL of a delivery in the retry queue runs out: it is dead-lettered back
\* to the primary queue over the second binding, headers as they were.
RetryExpires(d) ==
    /\ retry[d] > 0
    /\ retry' = Take(retry, d)
    /\ primary' = Add(primary, d)
    /\ UNCHANGED <<declared, parked, arrived, dbVars, faults, pc, workVars>>

-----------------------------------------------------------------------------
(* A worker.                                                               *)

\* connect, declare_consumer_topology, open the iterator.
Start(c) ==
    /\ pc[c] = "down"
    /\ pc' = [pc EXCEPT ![c] = "idle"]
    /\ declared' = TRUE
    /\ UNCHANGED <<primary, retry, parked, arrived, dbVars, faults, workVars>>

\* The worker has finished with its delivery: it holds nothing and goes to `to`.
Release(c, to) ==
    /\ pc' = [pc EXCEPT ![c] = to]
    /\ held' = [held EXCEPT ![c] = NoDelivery]
    /\ attached' = [attached EXCEPT ![c] = FALSE]
    /\ at' = [at EXCEPT ![c] = 1]
    /\ tries' = [tries EXCEPT ![c] = 1]
    /\ failed' = [failed EXCEPT ![c] = FALSE]

\* _should_process: of a subscribed type, and not another endpoint's retry.
ShouldProcess(c, d) ==
    /\ Subscribers[d.msg] # <<>>
    /\ d.count > 0 => d.endpoint = AppOf[c]

\* A delivery of no interest is acknowledged and nothing else happens to it.
Ignore(c, d) ==
    /\ pc[c] = "idle"
    /\ primary[d] > 0
    /\ ~ShouldProcess(c, d)
    /\ primary' = Take(primary, d)
    /\ UNCHANGED <<declared, retry, parked, arrived, dbVars, faults, pc, workVars>>

\* handle_delivery up to dispatch: the envelope is built, the handlers' loop begins.
Deliver(c, d) ==
    /\ pc[c] = "idle"
    /\ primary[d] > 0
    /\ ShouldProcess(c, d)
    /\ d.msg \notin Malformed
    /\ primary' = Take(primary, d)
    /\ pc' = [pc EXCEPT ![c] = "attempt"]
    /\ held' = [held EXCEPT ![c] = d]
    /\ attached' = [attached EXCEPT ![c] = TRUE]
    /\ UNCHANGED <<declared, retry, parked, arrived, dbVars, faults, at, tries, failed>>

\* UUID(message.message_id) raises outside handle_delivery's try: the worker
\* dies with the delivery unacknowledged and the broker puts it back.
DieOnMalformedId(c, d) ==
    /\ pc[c] = "idle"
    /\ primary[d] > 0
    /\ ShouldProcess(c, d)
    /\ d.msg \in Malformed
    /\ pc' = [pc EXCEPT ![c] = "down"]
    /\ UNCHANGED <<brokerVars, dbVars, faults, workVars>>

\* The (message, handler) pair the worker is on.
Key(c) == <<held[c].msg, Subscribers[held[c].msg][at[c]]>>

\* Mutation: only the last handler decides whether dispatch raises.
NextHandlerForgetting(c, anyFailed) ==
    /\ tries' = [tries EXCEPT ![c] = 1]
    /\ failed' = [failed EXCEPT ![c] = FALSE]
    /\ IF at[c] < Len(Subscribers[held[c].msg])
         THEN /\ at' = [at EXCEPT ![c] = @ + 1]
              /\ pc' = [pc EXCEPT ![c] = "attempt"]
         ELSE /\ pc' = [pc EXCEPT ![c] = IF anyFailed /\ ~failed[c] THEN "recover" ELSE "ack"]
              /\ UNCHANGED at

\* _run returned or gave up: the next handler, or the end of dispatch, which
\* raises when any handler failed.
NextHandler(c, anyFailed) ==
    /\ tries' = [tries EXCEPT ![c] = 1]
    /\ failed' = [failed EXCEPT ![c] = anyFailed]
    /\ IF at[c] < Len(Subscribers[held[c].msg])
         THEN /\ at' = [at EXCEPT ![c] = @ + 1]
              /\ pc' = [pc EXCEPT ![c] = "attempt"]
         ELSE /\ pc' = [pc EXCEPT ![c] = IF anyFailed THEN "recover" ELSE "ack"]
              /\ UNCHANGED at

\* _attempt opens a transaction and asks the inbox first: a message this
\* handler already handled is skipped.
WasHandled(c) ==
    /\ pc[c] = "attempt"
    /\ IF Key(c) \in inbox
         THEN NextHandler(c, failed[c])
         ELSE /\ pc' = [pc EXCEPT ![c] = "handling"]
              /\ UNCHANGED <<at, tries, failed>>
    /\ UNCHANGED <<brokerVars, dbVars, faults, held, attached>>

\* Mutation: the inbox table without its unique constraint.
RecordUnconstrained(c) ==
    /\ pc[c] = "handling"
    /\ pc' = [pc EXCEPT ![c] = "recorded"]
    /\ UNCHANGED <<brokerVars, dbVars, faults, workVars>>

\* The handler is through and inbox.record's INSERT is flushed.  The unique
\* constraint makes it wait for another transaction inserting the same key, and
\* fail (AttemptFails) if that key is there already.
Record(c) ==
    /\ pc[c] = "handling"
    /\ Key(c) \notin inbox
    /\ \A d \in Consumers : pc[d] = "recorded" => Key(d) # Key(c)
    /\ pc' = [pc EXCEPT ![c] = "recorded"]
    /\ UNCHANGED <<brokerVars, dbVars, faults, workVars>>

\* The handler's writes and the inbox row become durable together.
CommitRows(c) ==
    /\ inbox' = inbox \cup {Key(c)}
    /\ effect' = [effect EXCEPT ![Key(c)] = @ + 1]

Commit(c) ==
    /\ pc[c] = "recorded"
    /\ CommitRows(c)
    /\ NextHandler(c, failed[c])
    /\ UNCHANGED <<brokerVars, faults, held, attached>>

\* Mutation: range(1, immediate_retries + 3), one attempt too many.
RetryOnceMore(c) ==
    IF tries[c] <= ImmediateRetries + 1
      THEN /\ tries' = [tries EXCEPT ![c] = @ + 1]
           /\ pc' = [pc EXCEPT ![c] = "attempt"]
           /\ UNCHANGED <<at, failed>>
      ELSE NextHandler(c, TRUE)

\* The attempt raised: another immediate retry, or this handler has failed.
RetryOrGiveUp(c) ==
    IF tries[c] <= ImmediateRetries
      THEN /\ tries' = [tries EXCEPT ![c] = @ + 1]
           /\ pc' = [pc EXCEPT ![c] = "attempt"]
           /\ UNCHANGED <<at, failed>>
      ELSE NextHandler(c, TRUE)

\* Anything in an attempt raises (the handler, the database, the constraint)
\* and the transaction is rolled back.
AttemptFails(c) ==
    /\ pc[c] \in InDispatch
    /\ RetryOrGiveUp(c)
    /\ UNCHANGED <<brokerVars, dbVars, faults, held, attached>>

\* Mutation: the copy sent to the retry queue keeps its redelivery_count.
RecoverUncounted(c) ==
    /\ pc[c] = "recover"
    /\ LET d == held[c] IN
         IF d.count >= DelayedRetries
           THEN /\ parked' = parked \cup {d.msg}
                /\ UNCHANGED retry
           ELSE /\ retry' = Add(retry, [d EXCEPT !.endpoint = AppOf[c]])
                /\ UNCHANGED parked
    /\ pc' = [pc EXCEPT ![c] = "ack"]
    /\ UNCHANGED <<declared, primary, arrived, dbVars, faults, workVars>>

\* _recover: to the error queue once the delayed retries are spent, otherwise
\* to the retry queue, one redelivery further along and owned by this endpoint.
Recover(c) ==
    /\ pc[c] = "recover"
    /\ LET d == held[c] IN
         IF d.count >= DelayedRetries
           THEN /\ parked' = parked \cup {d.msg}
                /\ UNCHANGED retry
           ELSE /\ retry' = Add(retry, [msg |-> d.msg, count |-> d.count + 1,
                                        endpoint |-> AppOf[c]])
                /\ UNCHANGED parked
    /\ pc' = [pc EXCEPT ![c] = "ack"]
    /\ UNCHANGED <<declared, primary, arrived, dbVars, faults, workVars>>

\* The `finally`: the broker forgets the delivery.  On a channel that is no
\* longer open the ack raises and ends the process.
Ack(c) ==
    /\ pc[c] = "ack"
    /\ Release(c, IF attached[c] THEN "idle" ELSE "down")
    /\ UNCHANGED <<brokerVars, dbVars, faults>>

-----------------------------------------------------------------------------
(* What can go wrong around a worker; MaxFaults bounds how often.          *)

Fault(kind) ==
    /\ kind \in FaultKinds
    /\ faults < MaxFaults
    /\ faults' = faults + 1

\* The broker takes back what a lost worker or channel had not acknowledged.
Requeue(c) ==
    primary' = IF attached[c] THEN Add(primary, held[c]) ELSE primary

\* The process dies: its transaction is rolled back, its delivery requeued.
Crash(c) ==
    /\ Fault("crash")
    /\ pc[c] \in Busy
    /\ Requeue(c)
    /\ Release(c, "down")
    /\ UNCHANGED <<declared, retry, parked, arrived, dbVars>>

\* The connection drops and is re-established while the handler keeps running:
\* the delivery is requeued although a worker is still on it.
Disconnect(c) ==
    /\ Fault("disconnect")
    /\ pc[c] \in Busy
    /\ attached[c]
    /\ Requeue(c)
    /\ attached' = [attached EXCEPT ![c] = FALSE]
    /\ UNCHANGED <<declared, retry, parked, arrived, dbVars, pc, held, at, tries, failed>>

\* The commit took effect but its answer was an error: the attempt counts as failed.
CommitUnknown(c) ==
    /\ Fault("commitUnknown")
    /\ pc[c] = "recorded"
    /\ CommitRows(c)
    /\ RetryOrGiveUp(c)
    /\ UNCHANGED <<brokerVars, held, attached>>

\* _recover raises because the broker refuses the copy: `finally` acknowledges
\* the delivery all the same, and the exception ends the worker.
RecoverRefused(c) ==
    /\ Fault("refuse")
    /\ pc[c] = "recover"
    /\ Release(c, "down")
    /\ UNCHANGED <<brokerVars, dbVars>>

\* Ctrl-C: asyncio cancels the task.  CancelledError is not an Exception, so
\* nothing recovers the message, but `finally` still acknowledges it.
Cancel(c) ==
    /\ Fault("cancel")
    /\ pc[c] \in Working
    /\ Release(c, "down")
    /\ UNCHANGED <<brokerVars, dbVars>>

-----------------------------------------------------------------------------
Receive(c) == \E d \in Delivery : Ignore(c, d) \/ Deliver(c, d) \/ DieOnMalformedId(c, d)

\* What a worker does of its own accord.
Work(c) ==
    \/ Start(c)
    \/ Receive(c)
    \/ WasHandled(c)
    \/ Record(c)
    \/ Commit(c)
    \/ AttemptFails(c)
    \/ Recover(c)
    \/ Ack(c)

Disturb(c) ==
    \/ Crash(c)
    \/ Disconnect(c)
    \/ CommitUnknown(c)
    \/ RecoverRefused(c)
    \/ Cancel(c)

Next ==
    \/ \E m \in Messages : Arrive(m)
    \/ \E d \in Delivery : RetryExpires(d)
    \/ \E c \in Consumers : Work(c) \/ Disturb(c)

Spec == Init /\ [][Next]_vars

\* A worker keeps working and its operator starts it again when it ends; the
\* broker expires every TTL.  Nothing is assumed of the relay, of the faults, or
\* of which way an attempt goes.
Fairness ==
    /\ \A c \in Consumers : WF_vars(Work(c))
    /\ \A d \in Delivery : WF_vars(RetryExpires(d))

FairSpec == Spec /\ Fairness

-----------------------------------------------------------------------------
(* Properties.                                                             *)

TypeOK ==
    /\ declared \in BOOLEAN
    /\ primary \in [Delivery -> Nat]
    /\ retry \in [Delivery -> Nat]
    /\ parked \subseteq Messages
    /\ inbox \subseteq Messages \X Handlers
    /\ effect \in [Messages \X Handlers -> Nat]
    /\ arrived \in [Messages -> 0..MaxPublish]
    /\ faults \in 0..MaxFaults
    /\ pc \in [Consumers -> {"down", "idle"} \cup Busy]
    /\ held \in [Consumers -> Delivery \cup {NoDelivery}]
    /\ attached \in [Consumers -> BOOLEAN]
    /\ at \in [Consumers -> Nat \ {0}]
    /\ tries \in [Consumers -> 1..(ImmediateRetries + 1)]
    /\ failed \in [Consumers -> BOOLEAN]
    /\ \A c \in Consumers :
         /\ pc[c] \in Busy <=> held[c] # NoDelivery
         /\ pc[c] \in Busy => at[c] <= Len(Subscribers[held[c].msg])
         /\ pc[c] \notin Busy => at[c] = 1 /\ tries[c] = 1 /\ ~failed[c]

\* However often a message is published, redelivered, retried or taken by two
\* workers at once, a handler's writes for it are committed at most once (the
\* inbox check of dispatcher._attempt and the UNIQUE constraint behind it).
AtMostOnceEffect == \A k \in Messages \X Handlers : effect[k] <= 1

\* Why: an effect is committed with its inbox row, and a worker about to commit
\* is the only one to hold its key, which the inbox does not have yet.
DedupInv ==
    /\ \A k \in Messages \X Handlers : effect[k] = IF k \in inbox THEN 1 ELSE 0
    /\ \A c \in Consumers : pc[c] = "recorded" => Key(c) \notin inbox
    /\ \A c, d \in Consumers :
         pc[c] = "recorded" /\ pc[d] = "recorded" /\ c # d => Key(c) # Key(d)

HandledByAll(m) == \A h \in HandlersOf(m) : <<m, h>> \in inbox

\* A copy of m that does not depend on an acknowledgement still to be sent.
InQueue(m) == \E d \in Delivery : d.msg = m /\ (primary[d] > 0 \/ retry[d] > 0)
InHand(m)  == \E c \in Consumers : pc[c] \in Working /\ attached[c] /\ held[c].msg = m

Kept(m) == HandledByAll(m) \/ m \in parked \/ InQueue(m) \/ InHand(m)

\* "The message has already been copied somewhere durable" when its delivery is
\* acknowledged: a message the primary queue accepted is in a queue, in the
\* hands of a worker whose loss would requeue it, in the error queue, or handled
\* by every subscriber - even while its last delivery waits to be acknowledged.
NoMessageLost == \A m \in Messages : arrived[m] > 0 => Kept(m)

\* Why: a worker with no failure so far has been through all the handlers before
\* the current one, and no retry in circulation is foreign to a worker of the
\* queue, so none is ignored.
InCirculation(d) == \/ primary[d] > 0
                    \/ retry[d] > 0
                    \/ \E c \in Consumers : held[c] = d
EarlierHandled(c) ==
    \A i \in 1..(at[c] - 1) : <<held[c].msg, Subscribers[held[c].msg][i]>> \in inbox
OwnRetry(d) == d.count > 0 => \A c \in Consumers : d.endpoint = AppOf[c]

LossInv ==
    /\ NoMessageLost
    /\ \A c \in Consumers : pc[c] \in InDispatch /\ ~failed[c] => EarlierHandled(c)
    /\ \A d \in Delivery : InCirculation(d) => OwnRetry(d)

\* A message the queue accepted ends up handled by every subscriber or parked:
\* neither the retry loop nor two workers racing for the inbox keep it for ever.
Settled(m) == m \in parked \/ HandledByAll(m)
EventuallySettled == \A m \in Messages : arrived[m] > 0 ~> Settled(m)

\* Once the relay and the faults have stopped, the bus comes to rest: every
\* delivery, and every duplicate of one, is acknowledged.
Quiet == /\ \A d \in Delivery : primary[d] = 0 /\ retry[d] = 0
         /\ \A c \in Consumers : pc[c] = "idle"
EventuallyQuiet == <>[]Quiet

\* The promise without the machinery.
Promise == INSTANCE ReliableDelivery
             WITH Targets <- [m \in Messages |-> HandlersOf(m)],
                  offered <- {m \in Messages : arrived[m] > 0}
KeepsPromise == Promise!Spec
=============================================================================
