SPECIFICATION Spec
CONSTANT MaxPending = 3
INVARIANTS
    TypeOK
    NoLostPacket
PROPERTIES
    PacketReceived
    TickServed
