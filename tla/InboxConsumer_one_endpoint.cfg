\* Two workers of one endpoint, a crash, a lost channel or a commit in doubt.
SPECIFICATION FairSpec
CONSTANTS
    m1 = m1  m2 = m2  h1 = h1  h2 = h2  w1 = w1  w2 = w2
    customs = customs  shipment = shipment
    Messages = {m1}
    Handlers = {h1, h2}
    Subscribers <- BothHandlers
    Consumers = {w1, w2}
    Apps = {customs}
    NoApp = NoApp
    NoDelivery = NoDelivery
    Malformed = {}
    AppOf <- SameApp
    ImmediateRetries = 1
    DelayedRetries = 1
    FaultKinds = {"crash", "disconnect", "commitUnknown"}
    MaxFaults = 1
    MaxPublish = 2
INVARIANT NoMessageLost
PROPERTIES EventuallySettled EventuallyQuiet KeepsPromise
CHECK_DEADLOCK FALSE
