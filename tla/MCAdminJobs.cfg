CONSTANTS
    Threads = {t1, t2}
    IndexWorkers = {r1, r2}
    DownloadWorkers = {w1, w2}
    MaxFaults = 1
    Nobody = Nobody
    NRoots = 2
    NFiles = 2
    MaxCreates = 2
    Deployments = {"index", "snapshot", "url"}
SPECIFICATION Spec
INVARIANTS ActiveHasWorker SnapshotIsWhole
PROPERTY GuardKeepsRecord
CONSTRAINT Within
SYMMETRY Alike
CHECK_DEADLOCK FALSE
