\* Six requests one at a time (three attachments and three sign-offs fit in), or
\* four of which up to three overlap; one may fail.
SPECIFICATION Spec
CONSTANTS
    Requests = {1, 2, 3, 4, 5, 6}
    DocumentTypes = {"COMMERCIAL_INVOICE", "BILL_OF_LADING"}
    Files = {f1, f2, f3}
    NoOne = NoOne
    NotAsked = NotAsked
    MaxInFlight = 3
    MaxRacing = 4
    MaxFailures = 1
CONSTRAINT InOrder
SYMMETRY FileSymmetry
INVARIANTS TypeOK OneDocumentPerFile OpenedHasNoPaperwork NeverPremature
           CompletionUnlessOverlapped AnnouncedOnceUnlessOverlapped
PROPERTIES FirstInspectorUnlessOverlapped OrderUnlessOverlapped
