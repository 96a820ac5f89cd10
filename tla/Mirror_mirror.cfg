SPECIFICATION Spec
CONSTANTS
    RxPort = {r1}
    TxPort = {t1, t2}
    PoolSize = 3
    Burst = 2
    MaxSeg = 2
    Tagged = {t2}
    Faults = {"kill"}
    MaxPacket = 2
    MaxCommand = 6
    MaxLaunch = 2
INVARIANTS
    TypeOK
    MbufsKept
    FramesRight
    InForce
PROPERTIES
    BurstStable
