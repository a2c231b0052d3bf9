\* Two relays, two workers, a failed publish or pass and a fault around a worker.
SPECIFICATION Spec
CONSTANTS
    m1 = m1  m2 = m2  h1 = h1  h2 = h2
    customs = customs
    Messages = {m1}
    Relays = {r1, r2}
    Limit = 1
    MaxRelayFaults = 1
    Handlers = {h1, h2}
    Subscribers <- BothHandlers
    Consumers = {w1, w2}
    Apps = {customs}
    NoApp = NoApp
    NoDelivery = NoDelivery
    Malformed = {}
    AppOf <- SameApp
    ImmediateRetries = 0
    DelayedRetries = 1
    FaultKinds = {"crash", "disconnect", "commitUnknown"}
    MaxWorkerFaults = 1
INVARIANTS NothingLost
PROPERTIES KeepsPromise
CHECK_DEADLOCK FALSE
