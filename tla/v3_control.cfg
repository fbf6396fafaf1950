\* Antenna control, diagnostics at their retention limit, errors and a kill, against the abstract log.
SPECIFICATION Spec

CONSTANTS
    c1 = c1
    c2 = c2
    m1 = m1
    m2 = m2
    m3 = m3
    m4 = m4
    b1 = b1
    Streams <- AllStreams
    Clients = {c1}
    Creator = creator
    Ids = {m1, m2, m3, m4}
    Blobs = {b1}
    Menu <- ControlMenu
    Limits <- TightLimits
    Faults <- WriteFaults
    MaxRev = 4
    MaxFaults = 1
    MaxKills = 1
    MaxPower = 0
    MaxAllocated = 9


PROPERTIES
    ImplementsLog
