\* Three requests, served one by one or at once, one of which may fail.
SPECIFICATION Spec
CONSTANTS
    Requests = {r1, r2, r3}
    Ports = {p1, p2, p3}
    Finalize = Finalize
    NotAsked = NotAsked
    NoManifest = NoManifest
    MaxLegs = 1
    MaxInFlight = 3
    MaxFailures = 1
SYMMETRY RequestSymmetry
INVARIANTS TypeOK StoredIffAnnounced TruthUnlessOverlapped RouteUnlessOverlapped
PROPERTIES HandedOnForGood
