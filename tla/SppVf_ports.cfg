\* Ports move between two forwarding components; nothing is stopped, but devices
\* may fail to open: flags stay set and a later flush retries.
SPECIFICATION Spec
CONSTANTS
    Main = main
    SpareLcore = {spare}
    NoName = NoName
    NoClass = NoClass
    Worker = {w1, w2}
    StartLcore = {w1, w2}
    StartType = {"forward"}
    Name = {n1, n2}
    Port = {p1, r1}
    PhyPort = {p1}
    Class = {}
    Tags = {"none"}
    MaxComponent = 2
    MaxPort = 2
    Faults = {"pmd"}
    Verbs = {"start", "add", "del"}
    MaxCommand = 7
SYMMETRY Symmetry
INVARIANTS
    RxExclusive
    WorkersAgree
    ForwardersAgree
PROPERTIES
    HandoverSpec
