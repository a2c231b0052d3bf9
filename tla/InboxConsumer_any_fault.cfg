SPECIFICATION Spec
CONSTANTS
    m1 = m1  m2 = m2  h1 = h1  h2 = h2  w1 = w1  w2 = w2
    customs = customs  shipment = shipment
    Messages = {m1, m2}
    Handlers = {h1, h2}
    Subscribers <- BothHandlers
    Consumers = {w1, w2}
    Apps = {customs, shipment}
    NoApp = NoApp
    NoDelivery = NoDelivery
    Malformed = {m2}
    AppOf <- TwoApps
    ImmediateRetries = 1
    DelayedRetries = 1
    FaultKinds = {"crash", "disconnect", "commitUnknown", "refuse", "cancel"}
    MaxFaults = 1
    MaxPublish = 2
INVARIANTS TypeOK AtMostOnceEffect
CHECK_DEADLOCK FALSE
