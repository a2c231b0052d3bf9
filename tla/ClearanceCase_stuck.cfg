\* Both documents cleared at once: neither request sees the other's.
SPECIFICATION Spec
CONSTANTS
    Requests = {1, 2, 3, 4}
    DocumentTypes = {"COMMERCIAL_INVOICE", "BILL_OF_LADING"}
    Files = {f1, f2}
    NoOne = NoOne
    NotAsked = NotAsked
    MaxInFlight = 2
    MaxRacing = 4
    MaxFailures = 0
CONSTRAINT InOrder
SYMMETRY FileSymmetry
INVARIANTS CompletionAnnounced
