\* A retry after a failed directory sync.
SPECIFICATION Spec

CONSTANTS
    c1 = c1
    c2 = c2
    m1 = m1
    m2 = m2
    m3 = m3
    m4 = m4
    b1 = b1
    Streams <- AllStreams
    Clients = {c1}
    Creator = creator
    Ids = {m1, m2}
    Blobs = {b1}
    Menu <- EventMenu
    Limits <- RoomyLimits
    Faults = {"dirsync"}
    MaxRev = 3
    MaxFaults = 1
    MaxKills = 0
    MaxPower = 0
    MaxAllocated = 9

INVARIANTS
    AckedDurable
