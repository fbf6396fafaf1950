\* Two processes take turns; a kill and a power loss between any two steps.
SPECIFICATION Spec

CONSTANTS
    c1 = c1
    c2 = c2
    m1 = m1
    m2 = m2
    m3 = m3
    m4 = m4
    b1 = b1
    Streams <- AllStreams
    Clients = {c1, c2}
    Creator = creator
    Ids = {m1, m2, m3}
    Blobs = {b1}
    Menu <- EvidenceMenu
    Limits <- RoomyLimits
    Faults <- WriteFaults
    MaxRev = 2
    MaxFaults = 0
    MaxKills = 1
    MaxPower = 1
    MaxAllocated = 9

SYMMETRY Symmetric

INVARIANTS
    CommittedPrefixIntact
    AckedDurable
    AttachmentsKept
    WholeLinesOnce
    ContextsCommittedOnce
    ReadersUndisturbed
