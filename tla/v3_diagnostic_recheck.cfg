\* A diagnostic appended after a failed rollback.
SPECIFICATION Spec

CONSTANTS
    c1 = c1
    c2 = c2
    m1 = m1
    m2 = m2
    m3 = m3
    m4 = m4
    b1 = b1
    Streams <- AllStreams
    Clients = {c1}
    Creator = creator
    Ids = {m1, m2, m3, m4}
    Blobs = {b1}
    Menu <- ControlMenu
    Limits <- RoomyLimits
    Faults = {"sync", "rollback"}
    MaxRev = 3
    MaxFaults = 2
    MaxKills = 0
    MaxPower = 0
    MaxAllocated = 9

INVARIANTS
    CommittedPrefixIntact
