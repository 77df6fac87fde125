---------------------------- MODULE EncRegisters ----------------------------
(***************************************************************************)
(* enc28j60reg.h: the registers' banks and addresses.                      *)
(***************************************************************************)
EXTENDS Integers

At(b, a) == [bank |-> b, addr |-> a]

EncTable ==
   [ERDPTL |-> At(0, 0), ERDPTH |-> At(0, 1), EWRPTL |-> At(0, 2), EWRPTH |-> At(0, 3),
    ETXSTL |-> At(0, 4), ETXSTH |-> At(0, 5), ETXNDL |-> At(0, 6), ETXNDH |-> At(0, 7),
    ERXSTL |-> At(0, 8), ERXSTH |-> At(0, 9), ERXNDL |-> At(0, 10), ERXNDH |-> At(0, 11),
    ERXRDPTL |-> At(0, 12), ERXRDPTH |-> At(0, 13),
    ERXWRPTL |-> At(0, 14), ERXWRPTH |-> At(0, 15),
    ERXFCON |-> At(1, 24), EPKTCNT |-> At(1, 25),
    MACON1 |-> At(2, 0), MACON3 |-> At(2, 2), MACON4 |-> At(2, 3), MABBIPG |-> At(2, 4),
    MAIPGL |-> At(2, 6), MAIPGH |-> At(2, 7), MACLCON1 |-> At(2, 8),
    MICMD |-> At(2, 18), MIREGADR |-> At(2, 20), MIWRL |-> At(2, 22), MIWRH |-> At(2, 23),
    MIRDL |-> At(2, 24), MIRDH |-> At(2, 25), MAMXFLL |-> At(2, 10), MAMXFLH |-> At(2, 11),
    MAADR5 |-> At(3, 0), MAADR6 |-> At(3, 1), MAADR3 |-> At(3, 2), MAADR4 |-> At(3, 3),
    MAADR1 |-> At(3, 4), MAADR2 |-> At(3, 5), MISTAT |-> At(3, 10), EREVID |-> At(3, 18),
    ECON1 |-> At(4, 31), ECON2 |-> At(4, 30), ESTAT |-> At(4, 29), EIR |-> At(4, 28),
    EIE |-> At(4, 27)]

\* The MAC and MII registers, and what the controller changes by itself.
EncMacMii ==
    {r \in DOMAIN EncTable : EncTable[r].bank = 2}
       \cup {"MAADR1", "MAADR2", "MAADR3", "MAADR4", "MAADR5", "MAADR6", "MISTAT"}
EncVolatile == {"ESTAT", "EIR", "EPKTCNT", "MISTAT", "MIRDL", "MIRDH"}
=============================================================================
