\* Two manifests finalized at once.
SPECIFICATION Spec
CONSTANTS
    Requests = {r1, r2}
    Ports = {p1, p2}
    Finalize = Finalize
    NotAsked = NotAsked
    NoManifest = NoManifest
    MaxLegs = 0
    MaxInFlight = 2
    MaxFailures = 0
SYMMETRY RequestSymmetry
INVARIANTS CustomsToldTheTruth
