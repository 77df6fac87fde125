--------------------------- MODULE MCEncController ---------------------------
\* The register table of the header, an address with six different bytes, and
\* a PHY with the duplex bit and one bit of each byte set at power on.
EXTENDS EncController, EncRegisters

MCMac == <<0, 192, 51, 80, 72, 18>>
MCPhyPowerOn == [a \in {PHCON1, PHSTAT2} |-> IF a = PHCON1 THEN {3, 8, 12} ELSE {9, 10}]
MCDummyBytes == {{0, 7}}
=============================================================================
