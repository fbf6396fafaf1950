\* Recovery commits a tail that nothing has synced.
SPECIFICATION Spec
CONSTANTS
    a = a
    b = b
    c = c
    blob = blob
    p0 = p0
    p1 = p1
    p2 = p2
    Streams <- AllStreams
    Menu <- Short
    Blobs <- OneBlob
    Plans <- TwoPlans
    FirstPlan <- OneFirst
    Faults <- AllButDirectorySync
    MaxRev = 3
    MaxFaults = 0
    MaxKills = 1
    MaxPower = 0
    MaxDamage = 0
    Combined = FALSE
INVARIANT CommittedIsSynced
CHECK_DEADLOCK FALSE
