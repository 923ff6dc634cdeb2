------------------------------ MODULE MCI3cDaa ------------------------------
(***************************************************************************)
(* Two I3C devices and an I2C device share three slots; a third target *)
(* is on the bus and never attached.                                       *)
(***************************************************************************)
EXTENDS I3cDaa

CONSTANTS t1, t2, t3

MCTargets == {t1, t2, t3}
MCAddrs == 8..11
MCWanted == {<<t1, 8>>, <<t2, 9>>}
MCLegacy == {10}
====
