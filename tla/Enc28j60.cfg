SPECIFICATION FairSpec
CONSTANTS
    RxSize = 8
    HdrSize = 2
    Counts = {1, 2}
    MaxFrames = 4
INVARIANTS
    TypeOK
    HeldIntact
    NextPacketInStep
    SpaceReclaimed
PROPERTY DeliversQueue
