\* Two workers, two component slots, every kind of configuration command.
SPECIFICATION Spec
CONSTANTS
    Main = main
    SpareLcore = {spare}
    NoName = NoName
    NoClass = NoClass
    Worker = {w1, w2}
    StartLcore = {w1, w2, spare}
    StartType = {"forward", "merge", "classifier_mac"}
    Name = {n1, n2}
    Port = {p1, r1}
    PhyPort = {p1}
    Class = {c1}
    Tags = {"none"}
    MaxComponent = 2
    MaxPort = 2
    Faults = {}
    Verbs = {"start", "stop", "add", "del", "table", "exit"}
    MaxCommand = 5
SYMMETRY Symmetry
INVARIANTS
    TypeOK
    InForce
    TrafficFollows
    CleanExit
PROPERTIES
    ListStable
    PathStable
