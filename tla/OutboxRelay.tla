---------------------------- MODULE OutboxRelay ----------------------------
(***************************************************************************)
(* The publishing half of the message bus: the transactional outbox of one *)
(* module and the `dispatch-messages` passes that empty it.                *)
(*                                                                         *)
(*   shared/database/session.py   get_session: one transaction per request *)
(*   outbox/repository.py         schedule, find_pending                   *)
(*   outbox/relay.py              OutboxMessageRelay.dispatch              *)
(*                                                                         *)
(* A use case makes one state change and schedules one message for it, so  *)
(* a transaction goes by the name of its message.  `row` is what a         *)
(* committed read sees; what a transaction has written and not committed   *)
(* is in `tx` (a request) or in `marked` (a relay).                        *)
(***************************************************************************)
EXTENDS Naturals, FiniteSets

CONSTANTS
    Messages,       \* outbox rows, by message_id
    Relays,         \* dispatch-messages processes
    Limit,          \* --limit: batch size
    Unpublishable,  \* rows the broker refuses each time (a destination that cannot be declared)
    MaxFaults       \* bound: failed passes and failed publishes

ASSUME RelayAssumption ==
    /\ Limit \in Nat \ {0}
    /\ Unpublishable \subseteq Messages
    /\ MaxFaults \in Nat

VARIABLES
    tx,         \* where the request's transaction is
    createdAt,  \* created_at: now(), the time the transaction began
    clock,
    row,        \* the committed outbox row
    locked,     \* rows a relay holds FOR UPDATE
    todo,       \* rows of its batch it has not come to yet
    marked,     \* rows it has marked Sent and not committed
    published,  \* how many times the broker accepted the message
    faults

requestVars == <<tx, createdAt, clock>>
relayVars   == <<locked, todo, marked>>
vars == <<requestVars, row, relayVars, published, faults>>

Init ==
    /\ tx = [m \in Messages |-> "none"]
    /\ createdAt = [m \in Messages |-> 0]
    /\ clock = 0
    /\ row = [m \in Messages |-> "absent"]
    /\ locked = [r \in Relays |-> {}]
    /\ todo = [r \in Relays |-> {}]
    /\ marked = [r \in Relays |-> {}]
    /\ published = [m \in Messages |-> 0]
    /\ faults = 0

-----------------------------------------------------------------------------
(* The request that produces the message.                                  *)

\* The request's first statement begins its transaction.
Begin(m) ==
    /\ tx[m] = "none"
    /\ tx' = [tx EXCEPT ![m] = "open"]
    /\ clock' = clock + 1
    /\ createdAt' = [createdAt EXCEPT ![m] = clock']
    /\ UNCHANGED <<row, relayVars, published, faults>>

\* Mutation: the row is written through a session of its own.
ScheduleApart(m) ==
    /\ tx[m] = "open"
    /\ tx' = [tx EXCEPT ![m] = "scheduled"]
    /\ row' = [row EXCEPT ![m] = "Pending"]
    /\ UNCHANGED <<createdAt, clock, relayVars, published, faults>>

\* OutboxMessageRepository.schedule: INSERT and flush, no commit.
Schedule(m) ==
    /\ tx[m] = "open"
    /\ tx' = [tx EXCEPT ![m] = "scheduled"]
    /\ UNCHANGED <<createdAt, clock, row, relayVars, published, faults>>

\* get_session commits: the state change and the row, together.
CommitRequest(m) ==
    /\ tx[m] = "scheduled"
    /\ tx' = [tx EXCEPT ![m] = "committed"]
    /\ row' = [row EXCEPT ![m] = "Pending"]
    /\ UNCHANGED <<createdAt, clock, relayVars, published, faults>>

\* The use case raises, the commit fails or the process dies.
RollBackRequest(m) ==
    /\ tx[m] \in {"open", "scheduled"}
    /\ tx' = [tx EXCEPT ![m] = "rolledback"]
    /\ UNCHANGED <<createdAt, clock, row, relayVars, published, faults>>

-----------------------------------------------------------------------------
(* A relay's pass.  It is in one while it holds rows: a pass that finds    *)
(* none returns at once.                                                   *)

\* Mutation: FOR UPDATE SKIP LOCKED left out.
PendingUnlocked == {m \in Messages : row[m] = "Pending"}

\* What FOR UPDATE SKIP LOCKED can see of the pending rows.
Pending == {m \in Messages : row[m] = "Pending" /\ \A r \in Relays : m \notin locked[r]}

\* ORDER BY created_at LIMIT n: as many as the limit allows, none older left out.
IsBatch(B) ==
    /\ B \subseteq Pending
    /\ Cardinality(B) = IF Cardinality(Pending) < Limit THEN Cardinality(Pending) ELSE Limit
    /\ \A m \in B, n \in Pending \ B : createdAt[m] <= createdAt[n]

FindPending(r) ==
    /\ locked[r] = {}
    /\ Pending # {}
    /\ \E B \in SUBSET Pending :
         /\ IsBatch(B)
         /\ locked' = [locked EXCEPT ![r] = B]
         /\ todo' = [todo EXCEPT ![r] = B]
    /\ UNCHANGED <<requestVars, row, marked, published, faults>>

\* The next row of the batch.
IsNext(r, m) == m \in todo[r] /\ \A n \in todo[r] : createdAt[m] <= createdAt[n]

Done(r, m) == todo' = [todo EXCEPT ![r] = @ \ {m}]

\* The broker confirms the message and the row is marked in memory.
Publish(r, m) ==
    /\ IsNext(r, m)
    /\ m \notin Unpublishable
    /\ Done(r, m)
    /\ marked' = [marked EXCEPT ![r] = @ \cup {m}]
    /\ published' = [published EXCEPT ![m] = @ + 1]
    /\ UNCHANGED <<requestVars, row, locked, faults>>

\* Mutation: mark_as_sent also after an exception.
RefusedButMarked(r, m) ==
    /\ IsNext(r, m)
    /\ m \in Unpublishable
    /\ Done(r, m)
    /\ marked' = [marked EXCEPT ![r] = @ \cup {m}]
    /\ UNCHANGED <<requestVars, row, locked, published, faults>>

\* Mutation: `break` where the code has `continue`.
RefusedStops(r, m) ==
    /\ IsNext(r, m)
    /\ m \in Unpublishable
    /\ todo' = [todo EXCEPT ![r] = {}]
    /\ UNCHANGED <<requestVars, row, locked, marked, published, faults>>

\* publish raises: the row stays pending and the loop goes on with the next.
Refused(r, m) ==
    /\ IsNext(r, m)
    /\ m \in Unpublishable
    /\ Done(r, m)
    /\ UNCHANGED <<requestVars, row, locked, marked, published, faults>>

\* Mutation: one session for every pass, its identity map never expired.
CommitPassKeepingMarks(r) ==
    /\ locked[r] # {}
    /\ todo[r] = {}
    /\ row' = [m \in Messages |-> IF m \in marked[r] THEN "Sent" ELSE row[m]]
    /\ locked' = [locked EXCEPT ![r] = {}]
    /\ UNCHANGED <<requestVars, todo, marked, published, faults>>

\* session.commit(): what was marked becomes Sent, and the locks go.
CommitPass(r) ==
    /\ locked[r] # {}
    /\ todo[r] = {}
    /\ row' = [m \in Messages |-> IF m \in marked[r] THEN "Sent" ELSE row[m]]
    /\ locked' = [locked EXCEPT ![r] = {}]
    /\ marked' = [marked EXCEPT ![r] = {}]
    /\ UNCHANGED <<requestVars, todo, published, faults>>

-----------------------------------------------------------------------------
(* Failures; MaxFaults bounds how many.                                    *)

Fault ==
    /\ faults < MaxFaults
    /\ faults' = faults + 1

\* Mutation: the row is marked although its publish raised.
PublishFailsMarked(r, m) ==
    /\ Fault
    /\ IsNext(r, m)
    /\ Done(r, m)
    /\ marked' = [marked EXCEPT ![r] = @ \cup {m}]
    /\ \/ UNCHANGED published
       \/ /\ m \notin Unpublishable
          /\ published' = [published EXCEPT ![m] = @ + 1]
    /\ UNCHANGED <<requestVars, row, locked>>

\* One publish raises: the broker did not get the message, or it did and only
\* its confirmation was lost.
PublishFails(r, m) ==
    /\ Fault
    /\ IsNext(r, m)
    /\ Done(r, m)
    /\ \/ UNCHANGED published
       \/ /\ m \notin Unpublishable
          /\ published' = [published EXCEPT ![m] = @ + 1]
    /\ UNCHANGED <<requestVars, row, locked, marked>>

\* The process dies during its pass, or the commit fails: nothing it marked is
\* kept and the locks go.
PassFails(r) ==
    /\ Fault
    /\ locked[r] # {}
    /\ locked' = [locked EXCEPT ![r] = {}]
    /\ todo' = [todo EXCEPT ![r] = {}]
    /\ marked' = [marked EXCEPT ![r] = {}]
    /\ UNCHANGED <<requestVars, row, published>>

-----------------------------------------------------------------------------
Request(m) == Begin(m) \/ Schedule(m) \/ CommitRequest(m) \/ RollBackRequest(m)

Pass(r) ==
    \/ FindPending(r)
    \/ \E m \in Messages : Publish(r, m) \/ Refused(r, m)
    \/ CommitPass(r)

Next ==
    \/ \E m \in Messages : Request(m)
    \/ \E r \in Relays : Pass(r) \/ PassFails(r) \/ \E m \in Messages : PublishFails(r, m)

Spec == Init /\ [][Next]_vars

\* `dispatch-messages` is run again and again, and a pass that is not failed
\* runs to its end.  Nothing is assumed of the requests or of the failures.
Fairness == \A r \in Relays : WF_vars(Pass(r))

FairSpec == Spec /\ Fairness

-----------------------------------------------------------------------------
(* Properties.                                                             *)

TypeOK ==
    /\ tx \in [Messages -> {"none", "open", "scheduled", "committed", "rolledback"}]
    /\ createdAt \in [Messages -> Nat]
    /\ clock \in Nat
    /\ row \in [Messages -> {"absent", "Pending", "Sent"}]
    /\ locked \in [Relays -> SUBSET Messages]
    /\ todo \in [Relays -> SUBSET Messages]
    /\ marked \in [Relays -> SUBSET Messages]
    /\ published \in [Messages -> Nat]
    /\ faults \in 0..MaxFaults
    /\ \A r \in Relays : todo[r] \cup marked[r] \subseteq locked[r]

\* "Nothing is ever published for work that rolled back" (nor for work that has
\* not committed yet): the row and the state change commit together.
OnlyCommittedPublished == \A m \in Messages : published[m] > 0 => tx[m] = "committed"

\* What is committed stays Pending until the broker has had it at least once,
\* whichever publish, pass or commit fails (at-least-once delivery).
NothingForgotten ==
    \A m \in Messages : tx[m] = "committed" /\ published[m] = 0 => row[m] = "Pending"

\* However many dispatchers run at once, each duplicate is paid for by a failure:
\* SKIP LOCKED gives them disjoint batches.
DuplicatesNeedFailures == \A m \in Messages : published[m] <= 1 + faults

\* Why: a row has one holder, the rows held or marked are pending, and a row
\* nobody has marked has been published at most once per failure.
MarkedBySome(m) == \E r \in Relays : m \in marked[r]

RelayInv ==
    /\ \A r, s \in Relays : r # s => locked[r] \cap locked[s] = {}
    /\ \A r \in Relays : todo[r] \cap marked[r] = {}
    /\ \A r \in Relays, m \in Messages : m \in locked[r] => row[m] = "Pending"
    /\ \A m \in Messages : row[m] # "absent" <=> tx[m] = "committed"
    /\ \A m \in Messages : published[m] > 0 => row[m] # "absent"
    /\ \A m \in Messages : MarkedBySome(m) \/ row[m] = "Sent" => published[m] > 0
    /\ \A m \in Messages : row[m] = "Pending" /\ ~MarkedBySome(m) => published[m] <= faults
    /\ DuplicatesNeedFailures

\* Every committed change is announced in the end, rows the broker keeps
\* refusing notwithstanding, as long as they are fewer than the batch: the
\* oldest rows come first, so a batch full of refused ones would be the next
\* batch again.
EventuallySent ==
    \A m \in Messages \ Unpublishable : tx[m] = "committed" ~> row[m] = "Sent"
=============================================================================
