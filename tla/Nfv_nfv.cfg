\* One NIC, a ring, a vhost and a null device; one worker and seven commands.
SPECIFICATION FairSpec
CONSTANTS
    Worker = {w1}
    MaxPort = 3
    PhyCnt = 1
    Resource <- MCResource
    ClientId = {1}
    Faults = {"device"}
    MaxCommand = 7
INVARIANTS
    TypeOK
    PortsRight
    
PROPERTIES
    Served
