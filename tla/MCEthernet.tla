----------------------------- MODULE MCEthernet -----------------------------
(* A small instance of Ethernet for TLC: four registers of three bits.     *)
EXTENDS Ethernet

PhyAddress == <<1, 0>>
ControlReg == <<0, 0>>
StatusReg  == <<0, 1>>
Config1Reg == <<1, 0>>
Config2Reg == <<1, 1>>

(* The configuration has a bit of its own, which must survive.             *)
AtPowerUp == [r \in Registers |-> IF r[1] = 1 THEN <<0, r[2], 1>> ELSE <<0, 1, 0>>]

Bits == [r \in {ControlReg, Config1Reg, Config2Reg} |-> {1}]
=============================================================================
