-------------------------- MODULE MCRetryTopology --------------------------
(* Deployments of RetryTopology for TLC. *)
EXTENDS RetryTopology

CONSTANTS m1, w1, w2, customs, shipment, app, other,
          topic, direct, default, defaultRetry, error, deadLetter,
          customsQueue, customsRetry, siblingQueue, siblingRetry

\* worker.py: customs subscribes to the manifest, shipment to nothing yet.
Registry == [m \in Modules |-> IF m = customs THEN Messages ELSE {}]

\* shared/config/settings.py: `trade-logistics.#` matches every key.
Defaults ==
    [app |-> app,
     primaryExchange |-> topic, primaryQueue |-> default, primaryKeys |-> Keys,
     retryExchange |-> direct, retryQueue |-> defaultRetry, retryKey |-> defaultRetry,
     ttl |-> 10,
     deadExchange |-> Unset, deadKey |-> Unset,
     returnExchange |-> Unset, returnKey |-> Unset,
     errorExchange |-> direct, errorQueue |-> error, errorKey |-> deadLetter,
     delayedRetries |-> 1]

\* The concise command lines: of the customs queue as README gives it, and of a
\* second queue of the same module.
Customs == [module |-> customs, primaryQueue |-> customsQueue, primaryKeys |-> Messages,
            retryQueue |-> customsRetry, retryKey |-> customsRetry]
Sibling == [module |-> customs, primaryQueue |-> siblingQueue,
            retryQueue |-> siblingRetry, retryKey |-> siblingRetry]

\* Every flag spelled out.
Full == [deadExchange |-> direct, deadKey |-> Derived(customsQueue),
         returnExchange |-> direct, returnKey |-> Derived(customsQueue),
         app |-> other] @@ Customs

Two(first, second) == [w \in Workers |-> IF w = w1 THEN first ELSE second]

\* Deployments a careful operator writes.
Careful == {Two(Customs, Sibling), Two(Full, Sibling), Two(Customs, Customs),
            Two(Full, [Sibling EXCEPT !.module = shipment])}

QueueOnly(q) == [module |-> customs, primaryQueue |-> q]

\* Deployments that give two queues one retry queue, or two endpoints one queue.
Careless == {Two(QueueOnly(customsQueue), QueueOnly(siblingQueue)), Two(Customs, Full)}

Deployments == Careful \cup Careless
=============================================================================
