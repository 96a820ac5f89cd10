\* Two packets, two tx ports, updates that may fail, stop and restart.
SPECIFICATION FairSpec
CONSTANTS
    p1 = p1
    p2 = p2
    untagged = untagged
    tagged = tagged
    m1 = m1
    group = group
    Port = {p1, p2}
    TaggingPort = {}
    TagVid = tagged
    Vid = {untagged, tagged}
    Untagged = untagged
    Mac = {m1, group}
    Multicast = {group}
    DefaultMac = DefaultMac
    NoMac = NoMac
    NoTable = NoTable
    Config <- Chosen
    BurstSize = 2
    Faults = {"table"}
    MaxTx = 2
    MaxPacket = 2
    MaxCommand = 3
INVARIANTS
    TypeOK
    Conserved
    InOrder
PROPERTIES
    DeliverySpec
    Leaves
