SPECIFICATION Spec
CONSTANTS
    m1 = m1  m2 = m2  h1 = h1  h2 = h2  w1 = w1  w2 = w2
    customs = customs  shipment = shipment
    Messages = {m1}
    Handlers = {h1, h2}
    Subscribers <- BothHandlers
    Consumers = {w1}
    Apps = {customs}
    NoApp = NoApp
    NoDelivery = NoDelivery
    Malformed = {}
    AppOf <- SameApp
    ImmediateRetries = 1
    DelayedRetries = 1
    FaultKinds = {"cancel"}
    MaxFaults = 1
    MaxPublish = 1
INVARIANT NoMessageLost
CHECK_DEADLOCK FALSE
