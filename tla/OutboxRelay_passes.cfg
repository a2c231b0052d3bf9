\* Two relays at once, requests that commit and roll back, a row the broker
\* refuses, two failures.
SPECIFICATION FairSpec
CONSTANTS
    Messages = {m1, m2, m3}
    Relays = {r1, r2}
    Limit = 2
    Unpublishable = {m3}
    MaxFaults = 2
INVARIANTS TypeOK OnlyCommittedPublished NothingForgotten DuplicatesNeedFailures
PROPERTIES EventuallySent
CHECK_DEADLOCK FALSE
