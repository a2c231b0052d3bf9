# A verification development for trade-logistics-management

Two business modules, *shipment* and *customs clearance*, share one process
image, keep their own PostgreSQL schemas and tell each other things over
RabbitMQ. A third one, *files*, stores uploads. This directory models the parts
of that system whose correctness depends on the order in which things happen:
requests that overlap, transactions that fail, workers that die, messages that
come twice or have to find their way back. TLC checks the models on small instances (`*.cfg`), and TLAPS proves
the main safety properties for instances of any size
(`*Proofs.tla`). `PROJECT.json` maps every definition to the lines of `src/` it
stands for.

    tlasany InboxConsumer.tla                                  # parse
    tlc -config ClearanceCase_requests.cfg MCClearanceCase       # model-check
    tlapm InboxConsumerProofs.tla                              # prove

Paths below are relative to `src/modules/`; `bus/` is `shared/message_bus/`.

## 1. Inventory

### The components

| component | state | operations | what makes it correct |
|---|---|---|---|
| **Outbox and relay** (`bus/outbox/`, `shared/database/session.py`) | outbox rows (Pending/Sent), row locks, a relay's batch | a use case schedules a row in its own transaction; `dispatch-messages` selects pending rows `FOR UPDATE SKIP LOCKED`, publishes, marks, commits once | nothing published for work that rolled back; nothing committed forgotten; duplicates only after failures; progress past a row the broker refuses |
| **Inbox consumer** (`bus/rabbitmq/consumer.py`, `bus/inbox/`) | deliveries in the primary, retry and error queues; inbox rows; where each `handle-messages` worker is | policy on a delivery, immediate retries, delayed retries, parking, acknowledging | a handler's effect at most once; a delivery acknowledged only when the message is safe elsewhere; every retry loop ends |
| **Broker connection** (`bus/rabbitmq/connection.py`, `config.py`, the broker's options in `shared/config/settings.py`) | exchanges, queues with their arguments, bindings | resolve the options, declare, publish, schedule_retry, dead_letter; a replay by somebody else | a failed message returns to its own endpoint and to nobody else, in one copy, and is never dropped; every worker gets its queues |
| **Message bus** (`bus/cli/`, `src/worker.py`) | the above together | the two commands | a committed message is handled by every subscriber or parked |
| **Clearance case** (`customs_clearance/`) | a case's status, its documents, who cleared each | open (from a message), attach, verify | one document per file; the stage is left only with complete paperwork, once, and announced; the first signature stays; the status does not go back |
| **Shipment** (`shipment/`) | a shipment's status, route and manifest | create draft, assign route, finalize manifest | the manifest and its announcement go together; customs is told one truth; stored routes are routes |
| **Files** (`files/`) | an object on a disk, a row about it | upload | the row describes the object; no row without an object; one row per key |
| **Waybill series** (`shipment/.../postgres_waybill_number_generator.py`) | a database sequence | next, in a request that creates a draft | a number in use is in use once; none is issued again after a rollback; nothing past the end |
| File queries, HTTP layer, the other settings, migrations, value objects, planned features | none of their own that lives between calls | | |

### How they interact

A request opens one database session (`get_session`): the aggregate's row, and
the outbox row of the event it raised, are flushed into one transaction and
committed together. `finalize_manifest` thus leaves a `ShipmentManifestFinalized`
in shipment's outbox. A relay publishes it to shipment's exchange, a binding
copies it into customs' primary queue, and a customs worker opens a clearance
case for it, in a transaction that also records the message in customs' inbox.
`verify_document` announces `DocumentVerificationCompleted` the same way; at this
commit nothing subscribes to it. Files are joined by `file_uuid` only.

### What is hard

* *Concurrency.* Aggregates are read with plain SELECTs under READ COMMITTED,
  carry no version, and are written with UPDATEs that name the changed columns
  and the primary key: every rule checked in memory is checked on what may be
  stale. Several relays and several workers may run at once, on purpose.
* *Failure.* Nothing spans the broker and the database, or the disk and the
  database: a crash, a lost channel or a commit whose answer is lost falls
  between two of them.
* *Ordering.* Messages are requeued, retried through a TTL queue and duplicated;
  a delivery may be in the hands of a worker and back in the queue at once.
* *Progress.* A row or message that always fails must neither stop the others nor
  circulate for ever.

The hazards, each at its line and with the properties that cover it, are listed in
`PROJECT.json`.

## 2. The modules

| module | models | composes / refines |
|---|---|---|
| `ReliableDelivery` | what the consuming side promises, without machinery | the abstract specification |
| `InboxConsumer` | consumer, dispatcher, inbox, the three queues | implements `ReliableDelivery` |
| `OutboxRelay` | outbox, relay, the request's transaction | |
| `MessageBus` | both, joined at the broker | instantiates the two; implements `ReliableDelivery` |
| `RetryTopology` | options, exchanges, queues and bindings of a deployment; the way of a failed message over them | |
| `ClearanceCase` | one case under overlapping requests | |
| `Shipment` | one shipment under overlapping requests | |
| `WaybillSeries` | drafts created at once, from one series | |
| `FileUpload` | uploads for one key | |
| `MC*` | instances for TLC | |
| `InboxConsumerProofs`, `OutboxRelayProofs`, `RetryTopologyProofs`, `ClearanceCaseProofs`, `ShipmentProofs`, `WaybillSeriesProofs`, `FileUploadProofs` | theorems about the module they extend | |
| `MessageBusProofs` | theorems about the composition | from those about its parts: instantiates `OutboxRelayProofs` and `InboxConsumerProofs` |

### InboxConsumer

A step ends where the code awaits the broker or the database, so workers
interleave where processes do. `pc[c]` is the await a worker is at:

| `pc` | in the code |
|---|---|
| `down`, `idle` | not running; in the iterator of `MessageConsumer.consume` |
| `attempt` | about to ask `inbox.was_handled` in a new transaction (`_attempt`) |
| `handling` | in the handler and `inbox.record`'s flush |
| `recorded` | about to commit; the unique key is held |
| `recover` | dispatch raised: `_recover` copies to the retry or error queue |
| `ack` | in the `finally` |

`at` and `tries` are the two loops of the dispatcher (handlers, immediate
retries), `failed` its `failures` list. `primary` and `retry` are bags of
deliveries, with the headers the policy reads. `attached` is FALSE once the
channel a delivery came on is gone: the broker has requeued it although the
worker is still busy. `Record` waits for another transaction with the same key,
as a unique index does, and cannot happen once the key is committed;
`AttemptFails` covers everything that raises, that included. A handler's body is
the choice between the two.

The faults are actions of their own, enabled by kind: `crash`, `disconnect`,
`commitUnknown` (in effect, but reported as an error), `refuse` (the broker
rejects the copy) and `cancel` (Ctrl-C). `DieOnMalformedId` is not a fault but
what the code does with a `message_id` that is no UUID.

### OutboxRelay

`row` is what a committed read sees, `tx` the request's transaction, and
`locked`, `todo`, `marked` a relay's open one. `FindPending` takes any batch that
`ORDER BY created_at LIMIT n` may return: `created_at` is the time the transaction
*began* (`now()`), so a row may appear behind younger ones. `Publish` and the mark
are one step: nothing is awaited between them. A pass that finds nothing changes
nothing and is left out.

### MessageBus

`Publish` and `PublishFails` of the relay are joined with `Arrive` of the queue;
everything else is one part's step with the other unchanged. `offered`, in the promise,
is `Committed`: what the bus owes a handler is what a use case has committed.

### RetryTopology

`InboxConsumer` knows the queues of one endpoint. Here the routing is explicit:
a copy sits in a queue because a binding led it there, and a retry queue's
arguments say where it goes when its TTL runs out. `Topology` resolves a worker's
command line over the environment, `DeadKey` and its neighbours are the
`resolved_*` properties, and `PrimaryBindings`, `RetryArgs`, ... what
`declare_consumer_topology` declares from them, one queue per step: a worker may
be refused a queue that exists with other arguments, or die in between. A
binding key is the set of routing keys it matches.

A deployment (`plan`) gives each worker its options and is chosen in `Init`.
`KeptApart` says what an operator has to respect, read off the comments of
`config.py`: workers of one queue agree in everything; workers of different
queues share neither retry queue nor an address that leads to one, and where the
return path is left unset nothing else is needed. The safety properties are about
deployments kept apart; the run also starts two that are not, so that `Ignore` of
another endpoint's retry, `Lost` copies and refused declarations all happen.

`home` is a history field of a copy, the queue it last failed on; no action reads
it. `Replay` is not in this repository: the `endpoint` header is written for a
replay service, which may keep the other headers or start afresh. RabbitMQ drops a
message that would be dead-lettered back into the queue it expired in (a cycle);
`RetryExpires` leaves that queue out.

### ClearanceCase, Shipment

A request reads (`ReadCase` and `ReadDocuments` are two statements, hence two
snapshots; `Find` is one), decides from what it has read, flushes (waiting for
whoever holds the row or the unique key), and commits what it changed over
whatever the rows have become. The decision is a definition (`Allowed`,
`NewStatus`, `Redrawn`), so that the step uses the same values the flush and the
commit use. Cases share nothing and shipments share only the waybill series, so
one stands for all. `Statuses` includes those no operation of this commit reaches,
since the guards name them.

`overlapped`, in these modules and in `FileUpload`, is a history variable: it says
whether two requests were ever served at the same time, and lets one run ask both
what holds always and what holds only without overlap. The code does not know it.
`ClearanceCase` uses it in a bound as well: once two requests have overlapped, only
`MaxRacing` are served in all. Without overlap all six are, which the completion of a
case, and its completion a second time, take.

### WaybillSeries

`nextval` belongs to no transaction: `last` moves when a number is drawn and `Fail`
does not move it back. The number is drawn before the route is validated, so that a
refused draft spends one (`RefuseRoute`). `Insert` has both outcomes of the unique
constraint. Two things the code leaves to its environment are choices: `early` is
whether the answer leaves before `get_session` commits (`pyproject.toml` admits
FastAPI releases of both kinds), and `Restart` may set the sequence back to any
number not below a committed one, or ahead of where it stood, as PostgreSQL
documents it.

### FileUpload

The disk is `local`: opening truncates at once, two writers may leave the bytes
of either or of both (`Mixed`), and deleting a file swallows what its writers
still write. The clean-up (`Remove`) deletes by key, as the code does. Two refusals
come after the bytes are written and before the `try` whose clean-up would remove
them: of a reference (`RefuseReference`) and of an empty file (`RefuseEmpty`), in
the handler's order. `Unfit` are the uploads they are for. Whatever else
`StoredFile.register` validates, the command or `StorageLocation` has bounded
before.

## 3. What the runs show

| run | question | bounds |
|---|---|---|
| `InboxConsumer_any_fault` | Is a handler's effect ever committed twice, whatever goes wrong? | 2 workers under two app names, 2 messages (one malformed), 2 handlers, 1 immediate and 1 delayed retry, each message published up to twice, any 1 fault of 5 kinds |
| `InboxConsumer_one_endpoint` | Is an accepted message always somewhere safe, and does it get settled? Does the consumer implement `ReliableDelivery`? | 2 workers of one endpoint, 1 message published up to twice, 1 crash, lost channel or commit in doubt |
| `OutboxRelay_passes` | Published only if committed, never forgotten, duplicates paid for by failures, all sent in the end? | 3 rows (one refused by the broker for good), 2 relays, batches of 2, 2 failures |
| `MessageBus_end_to_end` | Is a committed message at every moment a pending row or safe with the consuming side? Does the whole bus keep the promise for what is committed? | 1 message, 2 handlers, 2 relays, 2 workers, 1 failure on each side |
| `RetryTopology_deployments` | Does a failed message come back to its own queue, by retry and by replay, in one copy, never dropped; does every worker start; is each message settled where it was delivered? | 6 deployments of 2 workers (4 kept apart), 1 message, 1 delayed retry, 1 crash, 1 replay |
| `ClearanceCase_requests` | Which rules hold of a case although requests overlap, and which unless they do? | 6 requests (3 attachments and 3 sign-offs fit), 3 at once, 4 in all once two overlap, 2 document types, 2 files, 1 lost request |
| `Shipment_requests` | Both questions for a shipment. | 3 requests, up to 3 at once, 3 ports, routes of up to one leg, 1 lost |
| `WaybillSeries_drafts` | Is a number ever in use twice, or issued twice? | 5 drafts, a series of 4, 2 lost, 2 restarts of the database, a sequence logged 1 ahead |
| `FileUpload_uploads` | Both questions for an upload, and whose bytes are at a key without a row. | 6 uploads, up to 4 at once, 1 empty, 1 with a refused reference, 2 failures of 5 kinds |
| `InboxConsumer_cancel` | *violated*: Ctrl-C acknowledges a message that is nowhere else | 1 worker |
| `ClearanceCase_stuck` | *violated*: two overlapping sign-offs leave complete paperwork unannounced | 4 requests, 2 at once |
| `Shipment_twice` | *violated*: two overlapping finalizations are both announced | 2 requests |

### Why these bounds are enough

* *Workers, relays*: the interference is pairwise (two transactions on one inbox
  key, two selects on one row, a zombie worker and the new holder of its delivery).
  Two of each give every pair; the theorems of section 4 cover any number.
* *Handlers*: two, so that one can fail while its sibling succeeds, and the retry
  must reach one and spare the other. *Messages*: handlers of different messages
  meet only in a worker, which takes one at a time; a second message is there for
  the malformed id and to have the worker move on.
* *Publishes*: twice is one duplicate; with one delayed retry, up to two copies of
  a message meet in every combination of queues and workers.
* *Retries*: one immediate and one delayed is the least at which a counter that
  does not survive, or is off by one, shows.
* *Batches*: two with three rows, so that a batch is full, leaves one out, and
  contains the refused row along with a good one.
* *Deployments*: what is wrong between endpoints is wrong between two. The four kept
  apart are the concise command line, every flag spelled out, two workers of one
  queue, and two modules under two app names; one crash and one replay put a second
  and a third copy under way.
* *Series*: five requests for four numbers reach the end of it; a second restart can
  undo draws that followed the first.
* *Requests*: two attachments and two sign-offs complete a case with two required
  types; a third pair is needed to complete it *again*. Three in flight cover a
  stale reader and two writers.
  Requests are numbered and arrive in that order (`InOrder`, a state constraint:
  which number a request has says nothing about what it asks, so any other order is
  one of these with the numbers exchanged), and files are symmetric.
* *Ports, legs*: three ports and one leg are the least at which two routes, each
  logical, merge column by column into one that is not.

Deadlock is checked where requests end (`AllAnswered` is the one way to stop) and
switched off for the bus, which rests when there is nothing to deliver.

### Fairness

The workers and relays are run by hand or by whatever the operator uses
(`README.md` 171-246; there is no supervisor in the repository). The liveness
properties therefore assume an operator who keeps relays running and restarts a
worker that ended: weak fairness of a worker's own steps (`Work`), of a relay's
(`Pass`), and of the broker's TTL (`Expire` in `RetryTopology`, with `Work` for each
worker, its start included). Nothing is assumed of requests, of faults, or of
whether a handler ever succeeds: `Work` is fair as a whole, so an attempt may fail
each time, and a message then ends up parked. Without the restart nothing could
settle a message requeued by the last worker to die.

### Where the code and its documentation disagree

The three violated properties quote a statement of the repository each; the
findings in `PROJECT.json` give the lines. The same models show more of the
same kind when a property is taken without its condition:

* `AnnouncedOnce`, `FirstInspector` and `Order` in `ClearanceCase` hold only
  `UnlessOverlapped`: two overlapping sign-offs announce one completion twice, a second
  inspector replaces the first, and a slow attachment takes a case back to
  `DocumentVerification`.
* `RecordDescribesReality` in `FileUpload` holds only `UnlessOverlapped`: of two uploads
  that find the key free the row is one's, and the bytes may be the other's.
  `README.md` 351-352 has "The record describes reality".
* Two workers started with `--module` and `--primary-queue` alone are not kept apart:
  `config.py` 32-33 has the primary queue as "the only thing that has to be unique", but the
  retry queue and its key come from the environment, and the second worker is
  refused the retry queue the first declared with another way back; its primary
  queue is bound by then, and fills. `RetryTopology_deployments` contains that
  deployment; with `KeptApart` taken out, `AllStart` fails in it.
* `Logical(route)` fails in `Shipment` with two assignments in flight: each changes
  other columns, and the row that results cannot be loaded again.
* `rows # {} => object # Nothing` fails in `FileUpload` with two uploads in flight
  and an `insert` failure: the clean-up removes the winner's object. The property
  checked, `OrphanNeedsFailedRival`, says that this is the only way.
* An empty upload is refused after its object was written, which stays without a
  row; the key answers 409 from then on. So does one with a reference whose
  `entity_id` is over 128 characters: `upload_file_command.py` 38 does not bound it, and
  `file_reference.py` 106-109 refuses it after the write. `README.md` 355-356 has the object
  removed again if the row cannot be inserted. `StrandedNeedsCause` says that only
  these two, and failures, do it.
* `NoMessageLost` also fails with the `refuse` kind: the `finally` acknowledges a
  delivery whose copy was not accepted.
* A delivery whose `message_id` is no UUID ends each worker that takes it.
* A relay that runs before any worker of the reacting module has declared its
  queue marks rows Sent that the broker drops (`Arrive` with `~declared`).
  `MessageBus` starts after that point.

## 4. What is proved

All theorems hold for every value of the constants under the modules' named
assumptions (`ConsumerAssumption`, `RelayAssumption`, `CaseAssumption`,
`ShipmentAssumption`, `UploadAssumption`, `TopologyAssumption`, `SeriesAssumption`,
`BusAssumption`),
which only give the constants their types (and a case a type of document to ask for). Bounds on faults, publishes and requests in flight are arbitrary naturals,
so they do not restrict the result.

`InboxConsumerProofs`:

* `TypeCorrect`: `Spec => []TypeOK`. Two conjuncts carry the argument: a worker
  holds a delivery exactly while it is busy, and its loop index stays within that
  message's handlers.
* `AtMostOnce`: `Spec => []AtMostOnceEffect`, with every kind of fault allowed.
  `effect <= 1` is not inductive: `DedupInv` adds that an effect was committed exactly
  for the keys in the inbox, that a worker about to commit holds a key the inbox does
  not have, and that no two such workers hold the same key. `Record` establishes the
  last two, as the unique index does; `Commit` and `CommitUnknown` need them.
* `NoLoss`: `Spec => []NoMessageLost` for workers of one endpoint and with neither
  `cancel` nor `refuse` among the faults: the two kinds that break it. `LossInv` adds
  that a worker with no failure so far has been through every handler before the
  current one, so that falling off the end of the loop means handled by all; and that
  no retry in circulation belongs to another endpoint, so that none is ignored.
  Deliveries in the queues and in hands are followed by one lemma per action.
* `OfferedOnly`: `Spec => []OfferedInv`: nothing circulates, is handled or is parked that
  the queue did not accept.
* `KeepsSafePromise`: `Spec => Promise!SafeSpec`, with every kind of fault allowed. A
  commit is `Apply`, a `Recover` out of retries `Park`, a first `Arrive` `Offer`; everything
  else stutters. `DedupInv` gives `Apply` its guard that the effect is not there yet;
  `OfferedInv` gives both their guard that the message was offered.

`OutboxRelayProofs`:

* `TypeCorrect`, `RelayInvariant`, and from the latter `OnlyCommitted`, `NoneForgotten`
  and `BoundedDuplicates`. `RelayInv` says that a row has at most one holder, that what
  is held is pending, that rows exist exactly for committed transactions, that what is
  marked or Sent was published, and that a pending row nobody has marked was
  published at most `faults` times: each failed publish or pass that wastes a publish
  is counted by the failure.

`MessageBusProofs`, about the composition. `PartsStep` shows that every step of the bus
is a step or a stutter of the relay side and one of the worker side, so that a
behaviour of the bus is a behaviour of each (`PartsRun`) and the theorems above hold in it
(`PartsInvariant`). What is left to prove is where they meet:

* `EveryPublishArrives`: `Linked`, what the relays have published is what the queue has
  accepted, message by message. It needs the initial condition that the queue is declared.
* `RelaysUnhindered`: the queue's bound on arrivals never disables a relay's publish, by
  `RelayInv`: a row still to be published is marked by nobody, so that its earlier
  publishes are all paid for by failures. The composition is not safe because it is stuck.
* `KeepsSafePromise`: `Spec => Promise!SafeSpec` with the committed messages as those
  offered. Commits are `Offer`; what a worker does to an accepted message it does to a
  committed one, by `Linked` and the relay's `OnlyCommittedPublished`.
* `NothingLostEndToEnd`: `NothingLost`, under the hypotheses of `NoLoss` (one endpoint, no `refuse`, no
  `cancel`), from `NothingForgotten`, `Linked` and `NoMessageLost`: the moment a row stops
  being pending, the queue has it.

`RetryTopologyProofs`:

* `TypeCorrect` together with `DeclaredInv`: every binding and queue argument at the
  broker is one that some worker declares, and a retry queue is there only beside the
  way back from it, because primary queues are declared first.
* `ComesHome`, `NoneDropped` and `ReplayHome` from `OnWay`: in a deployment kept apart
  every copy that failed is in its endpoint's primary, retry or error queue, under its
  app name (`WayInv`). Three lemmas carry it: from `KeptApart` and `DeclaredInv` the
  return address, the retry address and the error address of a worker each route to
  exactly one queue.
* `NoneRefused`: `AllStart`, from `DeclaredInv` and `PlainInv`: a queue without arguments is
  a primary or an error queue, so no worker meets one as its retry queue.
* `RetriesDoNotMultiply`: `OneCopyEach`, from `CopiesCounted`. Copies are counted without
  recursion over the bag: `Occurrences` is a set, one element per occurrence, and its
  cardinality goes up and down by one with each step that sends or takes a copy. What is
  counted in `CopyInv` is more than what the property speaks of: the fresh copies in an
  endpoint's retry queue too, because an expiry brings them home. `PublishedInv` says that a message
  not yet published has no copies, and `FreshOnce` that its publish reaches one of an
  endpoint's two queues at most.
* `RetriesBounded`: in a deployment kept apart no copy has been retried more often than its
  endpoint's `delayed_retries`, and a parked one exactly as often (`SpentInv`), whoever held
  it, let it expire or replayed it in between. With `WayInv` this is the safety half of
  `EventuallySettledHere`: a copy that keeps failing has only the error queue left.

`ClearanceCaseProofs`:

* `CaseInvariant`, and from it `TypeCorrect`, `OneDocument`, `NotPremature` and
  `OpenedIsEmpty`. Requests decide from stale reads and commit over newer rows, so no
  rule can be proved from the decision alone. `SeenInv` says why stale is not wrong:
  documents and signatures are only ever added, so what a request has read is a subset
  of what is there when it commits. `StageInv` says that while the
  case is at Opened every request in flight has read Opened, so that the first
  attachment to commit moves it on, and none can move it back. `IndexInv` is the unique constraint: who is
  about to insert holds a key that no row and no other request has.
* `CompletionKept`, `AnnouncedOnce`, `FirstInspector` and `OrderKept` from `AloneInvariant`:
  unless requests overlapped, the one that is served has read the case as it is, so
  its decision still fits when it commits, and the stage, the announcements and the
  paperwork agree between requests.

`ShipmentProofs`:

* `StoredAndAnnounced` and the action property `HandedOn`, from `HandInv`: manifest,
  status and announcement are written by one commit and none is taken back, whatever
  requests overlap.
* `OneTruth` and `RouteKept`, from `AloneInv`: unless requests overlapped, who is
  served has read the row as it is, so the guard on Draft holds when it commits and
  the merged columns are one route.

`WaybillSeriesProofs`:

* `NoneCollide` and `NoneReissued`, from `SeriesInv`: the sequence is never behind a
  number in use, nor, before a restart, behind any it handed out; and a build that
  answers late has told only stored numbers.

`FileUploadProofs`:

* `OneRow` (`OneFilePerKey`, one row per key at most; proved only, no run asks it),
  `OrphanExplained`, `RealityKept` and `StrandedExplained`, from `UploadInv`. `KeyInv` is the unique
  constraint again; `OverlapInv` says who can be in flight beside whom without
  `overlapped`; `OrphanInv` that the object vanishes under an upload's hands only after a
  rival's clean-up, hence after an overlap and a failure; `AloneInv` what is on the
  disk at each step of an upload that is alone; `StrandInv` that, short of a failure, the
  bytes at a key without a row are of uploads on the way to one or of refused `Unfit` ones,
  and a mixture has two of them.

Only model-checked: the liveness properties (`EventuallySettled`, `EventuallyQuiet`,
`EventuallySent`, `EventuallySettledHere`) and the fairness half of both `KeepsPromise`:
fairness and ENABLED are out of the prover's reach. Every other property of a passing
run is the statement of a theorem.

## 5. What is not modelled, and why

* Exchange types, prefetch and the settings of the connection: a topic key is the set of
  keys it matches, a worker takes one delivery at a time, heartbeats and reconnects are
  what `disconnect` stands for.
* `InboxConsumer`'s attempts over `RetryTopology`'s routing: the first takes the second's
  result (a retry returns to its endpoint's queue) as its `RetryExpires`, and the second
  an attempt as one step.
* What a relay publishes before any worker has declared a queue is lost; no property
  says otherwise. `MessageBus` starts after that point.
* HTTP rendering, problem details, hypermedia, the settings that are not the broker's,
  option parsing, logging: no state that lives between calls. File queries: reads only.
* Value objects (ids, money, names, storage paths): validation of single values, which
  the unit tests cover; here a value that passes is a member of a set.
* Migrations: run one at a time by an operator. The modules assume their result.
* Risk assessment, duty payment, customs hold, release, exceptions: empty packages
  at this commit.

## 6. Plan

In order of weight; all but the ninth and the last are done.

1. `InboxConsumer` with `ReliableDelivery`, its invariants and their proofs.
2. `OutboxRelay`, its invariants and their proofs.
3. `MessageBus`: the composition and its refinement.
4. `ClearanceCase`, `Shipment`, `FileUpload`: overlapping requests, and the proofs of what
   holds although they overlap.
5. `RetryTopology`: exchanges, bindings and dead-letter routing of several endpoints, and its
   proofs.
6. Proofs of what holds of a case unless requests overlap (`AloneInv`).
7. `WaybillSeries`, and its proofs.
8. `Spec => Promise!SafeSpec` of the consumer, and its proof.
9. The case that one manifest opens: `MessageBus` over `Shipment` and `ClearanceCase`,
   with one case per announced manifest as the property.
10. `OneCopyEach` as a theorem, from a counting invariant over the bag of copies, and the
    bound on retries.
11. The bus from its parts: `MessageBusProofs`.
12. An abstract specification of a case or a shipment that takes its requests one
    at a time, which the detailed one implements unless requests overlap.
