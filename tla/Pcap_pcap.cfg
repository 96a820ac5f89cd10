\* One receiver, two writers, two captures of three packets, and files that
\* cannot be opened or written.
SPECIFICATION Spec
CONSTANTS
    Receiver = receiver
    Writer = {w1, w2}
    RingSize = 2
    Burst = 2
    FileLimit = 1
    Faulty = {w1, w2}
    Signals = FALSE
    MaxPacket = 3
    MaxCommand = 3
SYMMETRY Symmetry
INVARIANTS
    TypeOK
    CountRight
    PacketsKept
