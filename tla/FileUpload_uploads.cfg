\* Six uploads, served one by one or up to four at once, one of them empty and one
\* with a reference that is refused; any two failures.
SPECIFICATION Spec
CONSTANTS
    Uploads = {u1, u2, u3, u4, e1, b1}
    Empty = {e1}
    BadReference = {b1}
    Nothing = Nothing
    Mixed = Mixed
    FaultKinds = {"write", "insert", "delete", "commit", "crash"}
    MaxInFlight = 4
    MaxFaults = 2
SYMMETRY UploadSymmetry
INVARIANTS TypeOK RealityUnlessOverlapped OrphanNeedsFailedRival StrandedNeedsCause
