\* A merger and a classifier, ports with and without VLAN operations.
SPECIFICATION Spec
CONSTANTS
    Comp = {0, 1}
    Classifier = {1}
    Merger = {0}
    Fresh = {}
    p0 = p0
    p1 = p1
    Port = {p0, p1}
    PortZero = p0
    PhyPort = {p0}
    Vid = {1, 2}
    NoVid = NoVid
    Forms = {"none", "add_vlantag", "del_vlantag"}
    Foreign = FALSE
    Faults = {"device"}
    MaxAbility = 2
    MaxList = 2
    MaxPort = 2
    MaxCommand = 4
INVARIANTS
    TypeOK
    InForce
PROPERTIES
    AbilityStable
