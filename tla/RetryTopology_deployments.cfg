SPECIFICATION FairSpec
CONSTANTS
    m1 = m1  w1 = w1  w2 = w2  customs = customs  shipment = shipment
    app = app  other = other  topic = topic  direct = direct
    default = default  defaultRetry = defaultRetry
    error = error  deadLetter = deadLetter
    customsQueue = customsQueue  customsRetry = customsRetry
    siblingQueue = siblingQueue  siblingRetry = siblingRetry
    Messages = {m1}
    Names = {app, other, topic, direct, default, defaultRetry, error, deadLetter,
             customsQueue, customsRetry, siblingQueue, siblingRetry}
    Modules = {customs, shipment}
    Handles <- Registry
    Settings <- Defaults
    Workers = {w1, w2}
    Plans <- Deployments
    Unset = Unset  Plain = Plain  NoApp = NoApp
    NoQueue = NoQueue  NoEndpoint = NoEndpoint  NoCopy = NoCopy
    MaxCrashes = 1
    MaxReplays = 1
INVARIANTS TypeOK RetryComesHome NothingDropped ReplayLands OneCopyEach AllStart
PROPERTIES EventuallySettledHere
CHECK_DEADLOCK FALSE
