\* One writer, with fairness: captures start and stop, threads end.
SPECIFICATION FairSpec
CONSTANTS
    Receiver = receiver
    Writer = {w1}
    RingSize = 2
    Burst = 2
    FileLimit = 1
    Faulty = {w1}
    Signals = TRUE
    MaxPacket = 2
    MaxCommand = 4
PROPERTIES
    CaptureCompletes
    ExitCompletes
