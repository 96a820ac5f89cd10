\* A packet is flooded to two ports, one of which adds a VLAN tag.
SPECIFICATION Spec
CONSTANTS
    p1 = p1
    p2 = p2
    untagged = untagged
    tagged = tagged
    m1 = m1
    group = group
    Port = {p1, p2}
    TaggingPort = {p1}
    TagVid = tagged
    Vid = {untagged, tagged}
    Untagged = untagged
    Mac = {m1, group}
    Multicast = {group}
    DefaultMac = DefaultMac
    NoMac = NoMac
    NoTable = NoTable
    Config <- Flooding
    BurstSize = 2
    Faults = {}
    MaxTx = 2
    MaxPacket = 1
    MaxCommand = 1
INVARIANTS
    TagOfThePort
