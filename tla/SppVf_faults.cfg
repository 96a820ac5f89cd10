\* Every fault on one worker and one port: devices, MAC tables, late workers,
\* SIGTERM, refused commands.  Ports may be shared through add_vlantag.
\* After a signal the system stops.
SPECIFICATION FairSpec
CONSTANTS
    Main = main
    SpareLcore = {spare}
    NoName = NoName
    NoClass = NoClass
    Worker = {w1}
    StartLcore = {w1}
    StartType = {"forward", "classifier_mac"}
    Name = {n1, n2}
    Port = {r1}
    PhyPort = {}
    Class = {c1}
    Tags = {"none", "add_vlantag"}
    MaxComponent = 2
    MaxPort = 2
    Faults = {"pmd", "table", "slow", "signal"}
    Verbs = {"exit", "refuse", "start", "stop", "add", "table"}
    MaxCommand = 4
CHECK_DEADLOCK FALSE
INVARIANTS
    SpinHasPartner
PROPERTIES
    FlushEnds
    
