CONSTANTS
    Events = {e1, e2}
    Cameras = {c1}
    CameraOf <- OneCamera
    Matching = {e1, e2}
    Plan <- OneAction
    Desks = {d1}
    Operators = {o1}
    Capacity = 1
    Interval = 1
    Cooldown = 2
    Memory = 1
    MaxTime = 2
    MaxDeliveries = 2
    MaxSaves = 2
    MaxRestarts = 0
    None = None
SPECIFICATION Spec
INVARIANT EnabledByRequest
SYMMETRY EventSymmetry
CHECK_DEADLOCK FALSE
