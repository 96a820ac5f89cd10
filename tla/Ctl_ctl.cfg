\* A primary, and a spp_vf and a spp_nfv with the same client id.
SPECIFICATION FairSpec
CONSTANTS
    vf = vf
    nfv = nfv
    pri = pri
    Secondary = {vf, nfv}
    Primary = pri
    Blocking = {nfv, pri}
    IdOf <- MCIdOf
    Request = {r1, r2}
    MaxFault = 1
    MaxConn = 3
CHECK_DEADLOCK FALSE
INVARIANTS
    TypeOK
    Matched
    Reachable
PROPERTIES
    Answered
    Connects
