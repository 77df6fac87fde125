SPECIFICATION Spec
CONSTANTS
    Table <- EncTable
    MacMii <- EncMacMii
    Volatile <- EncVolatile
    DummyBytes <- MCDummyBytes
    Mac <- MCMac
    PhyPowerOn <- MCPhyPowerOn
    NextPackets = {0, 1600}
    Counts = {60}
    MaxRestarts = 0
INVARIANT
    StartedAsCommented
