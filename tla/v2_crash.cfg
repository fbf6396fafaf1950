\* Crashes, I/O errors and a damaged checkpoint in one schema-v2 session.
SPECIFICATION Spec
CONSTANTS
    a = a
    b = b
    c = c
    blob = blob
    p0 = p0
    p1 = p1
    p2 = p2
    Streams <- AllStreams
    Menu <- Short
    Blobs <- OneBlob
    Plans <- TwoPlans
    FirstPlan <- OneFirst
    Faults <- AllButDirectorySync
    MaxRev = 3
    MaxFaults = 2
    MaxKills = 1
    MaxPower = 1
    MaxDamage = 1
    Combined = FALSE
INVARIANTS
    AcknowledgedSurvive
    AlwaysRecoverable
    OnlyWholeMutations
SYMMETRY Symmetric
CHECK_DEADLOCK FALSE
