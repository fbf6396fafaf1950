\* Two errors, so that error handling fails in its turn, and a kill.
SPECIFICATION FairSpec

CONSTANTS
    c1 = c1
    c2 = c2
    m1 = m1
    m2 = m2
    m3 = m3
    m4 = m4
    b1 = b1
    Streams <- AllStreams
    Clients = {c1}
    Creator = creator
    Ids = {m1, m2}
    Blobs = {b1}
    Menu <- BlobMenu
    Limits <- RoomyLimits
    Faults <- AllFaults
    MaxRev = 2
    MaxFaults = 2
    MaxKills = 1
    MaxPower = 0
    MaxAllocated = 9

INVARIANTS
    IndInv

PROPERTIES
    EveryCallReturns
    RecoveryHeals
