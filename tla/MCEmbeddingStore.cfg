CONSTANTS
    Files <- TwoFiles
    Sidecars <- OneSidecar
    Texts = {"t1", "t2"}
    None = None
    MaxEdits = 2
    MaxRefreshes = 2
    MaxSeconds = 1
    MaxFaults = 1
    small = small
    large = large
    Models = {small, large}
    Dim <- Distinct
    CompactionPercent = 60
    MaxSwitches = 1
SPECIFICATION Spec
INVARIANTS ManifestIsBacked SearchIsOfOneGeneration VectorsAreTrue WarmupServes
ACTION_CONSTRAINT Timely
CONSTRAINT Disturbed
CHECK_DEADLOCK FALSE
