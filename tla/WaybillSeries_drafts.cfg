\* Five drafts from a series of four numbers; two failures, two restarts.
SPECIFICATION Spec
CONSTANTS
    Requests = {r1, r2, r3, r4, r5}
    MaxSerial = 4
    LoggedAhead = 1
    MaxFailures = 2
    MaxRestarts = 2
SYMMETRY RequestSymmetry
INVARIANTS TypeOK NeverCollide NeverReissued
