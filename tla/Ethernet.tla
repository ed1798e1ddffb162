------------------------------ MODULE Ethernet ------------------------------
(***************************************************************************)
(* The network driver (nios/ECE385_src/ethernet.c) on the hardware it      *)
(* programs: the registers of the PHY, which it reaches through Mdio, and  *)
(* the two SGDMA controllers, with the HAL's calls for them                *)
(* (altera_avalon_sgdma.c).  eth0_init runs once, then main() calls        *)
(* eth_loop for ever.                                                      *)
(*                                                                         *)
(* The controllers and the frames are external.  A frame is known by what  *)
(* has become of it; a damaged one sets an error bit in the status of its  *)
(* descriptor and stops the controller.                                    *)
(***************************************************************************)
EXTENDS Mdio

CONSTANTS
  PowerUp,                             \* the registers of the PHY at power-up
  Control, Status, Config1, Config2,   \* registers 0x00, 0x01, 0x10, 0x14
  SetBits,                             \* what eth0_init sets in three of them
  ResetBit, LinkBit                    \* bit 15 of Control, bit 2 of Status

ASSUME RegisterAssumption ==
  /\ PowerUp \in [Registers -> Words]
  /\ {Control, Status, Config1, Config2} \subseteq Registers
  /\ Control # Status /\ Config1 # Config2
  /\ {Control, Status} \cap {Config1, Config2} = {}
  /\ \A r \in {Control, Config1, Config2} : SetBits[r] \subseteq 1 .. DataBits
  /\ {ResetBit, LinkBit} \subseteq 1 .. DataBits /\ ResetBit \in SetBits[Control]

VARIABLES
  pc, step,       \* where the program is; how many of ToSet are done
  linkUp,         \* eth0_prev_state, and with it the netif's link flag
  p,              \* the pbuf: what was copied from the receive buffer
  owned, damaged, \* eth0_rx_descriptor: OWNED_BY_HW; an error bit
  rx, buffer,     \* the receiving controller; eth0_rx_frame
  tx, back,       \* the sending controller; where eth0_tx returns to
  applied         \* the configuration the PHY took at its last reset

driver == <<pc, step, linkUp, p>>
receiver == <<owned, damaged, rx, buffer>>
sender == <<tx, back>>
vars == <<driver, receiver, sender, applied, mdioVars>>

Goto(label) == pc' = label

------------------------------------------------------------------------------
(* eth0_init: three registers are read, or-ed and written, then the PHY is *)
(* polled until it has left its reset.                                     *)

ToSet == <<Config1, Config2, Control>>

WithBits(w, bits) == [i \in 1 .. DataBits |-> IF i \in bits THEN 1 ELSE w[i]]

(* A load or a store of the program: it starts here, and the next step     *)
(* waits for it.                                                           *)
Load(r) == Ask("read", r, writedata)
Store(r, w) == Ask("write", r, w)
Waited(label) == pc = label /\ op = "none"

InitLoad ==
  /\ pc = "init" /\ step < 3
  /\ Load(ToSet[step + 1])
  /\ Goto("set")
  /\ UNCHANGED <<step, linkUp, p, receiver, sender, applied>>

(* A bug to compare with: the bits are written, not added.                 *)
InitStoreOnly ==
  /\ Waited("set")
  /\ LET r == ToSet[step + 1]
     IN  Store(r, WithBits([i \in 1 .. DataBits |-> 0], SetBits[r]))
  /\ Goto("wrote")
  /\ UNCHANGED <<step, linkUp, p, receiver, sender, applied>>

InitStore ==
  /\ Waited("set")
  /\ LET r == ToSet[step + 1] IN Store(r, WithBits(result, SetBits[r]))
  /\ Goto("wrote")
  /\ UNCHANGED <<step, linkUp, p, receiver, sender, applied>>

InitNext ==
  /\ Waited("wrote")
  /\ step' = step + 1
  /\ Goto("init")
  /\ UNCHANGED <<linkUp, p, receiver, sender, applied, mdioVars>>

ResetLoad ==
  /\ pc = "init" /\ step = 3
  /\ Load(Control)
  /\ Goto("reset")
  /\ UNCHANGED <<step, linkUp, p, receiver, sender, applied>>

ResetCheck ==
  /\ Waited("reset")
  /\ Goto(IF result[ResetBit] = 1 THEN "init" ELSE "construct")
  /\ UNCHANGED <<step, linkUp, p, receiver, sender, applied, mdioVars>>

------------------------------------------------------------------------------
(* eth0_rx_start: the descriptor is filled, then the controller started;   *)
(* a busy controller refuses, and nobody looks at the answer.              *)

(* A bug to compare with: OWNED_BY_HW is forgotten.                        *)
ConstructFree ==
  /\ pc = "construct"
  /\ damaged' = FALSE
  /\ Goto("start")
  /\ UNCHANGED <<step, linkUp, p, owned, rx, buffer, sender, applied, mdioVars>>

Construct ==
  /\ pc = "construct"
  /\ owned' = TRUE /\ damaged' = FALSE
  /\ Goto("start")
  /\ UNCHANGED <<step, linkUp, p, rx, buffer, sender, applied, mdioVars>>

Start ==
  /\ pc = "start"
  /\ rx' = IF rx = "idle" THEN "waiting" ELSE rx
  /\ p' = "none"
  /\ Goto("loop")
  /\ UNCHANGED <<step, linkUp, owned, damaged, buffer, sender, applied, mdioVars>>

------------------------------------------------------------------------------
(* eth_loop.                                                               *)

LoopLoad ==
  /\ pc = "loop"
  /\ Load(Status)
  /\ Goto("link")
  /\ UNCHANGED <<step, linkUp, p, receiver, sender, applied>>

(* netif_set_link_up may send at once: the stack announces its address and *)
(* its groups, and asks for an address.                                    *)
Announce == result[LinkBit] = 1 /\ ~ linkUp

(* A bug to compare with: only a link that comes up is noted.              *)
LinkOnlyUp ==
  /\ Waited("link")
  /\ linkUp' = (linkUp \/ result[LinkBit] = 1)
  /\ \/ Goto("check") /\ UNCHANGED back
     \/ Announce /\ Goto("copy") /\ back' = "check"
  /\ UNCHANGED <<step, p, receiver, tx, applied, mdioVars>>

Link ==
  /\ Waited("link")
  /\ linkUp' = (result[LinkBit] = 1)
  /\ \/ Goto("check") /\ UNCHANGED back
     \/ Announce /\ Goto("copy") /\ back' = "check"
  /\ UNCHANGED <<step, p, receiver, tx, applied, mdioVars>>

(* A bug to compare with: the descriptor is checked for its owner only.    *)
CheckOwnerOnly ==
  /\ pc = "check"
  /\ Goto(IF owned THEN "timeouts" ELSE "receive")
  /\ UNCHANGED <<step, linkUp, p, receiver, sender, applied, mdioVars>>

CheckStatus ==
  /\ pc = "check"
  /\ Goto(IF damaged \/ owned THEN "timeouts" ELSE "receive")
  /\ UNCHANGED <<step, linkUp, p, receiver, sender, applied, mdioVars>>

(* The end of receiving: with no pbuf the frame is dropped, but the        *)
(* controller is started again.                                            *)
Take == p' = buffer /\ buffer' = "old"

Input ==
  /\ pc = "receive"
  /\ Take
  /\ \/ Goto("construct") /\ UNCHANGED back       \* taken, or refused and freed
     \/ Goto("copy") /\ back' = "construct"       \* it is answered at once
  /\ UNCHANGED <<step, linkUp, owned, damaged, rx, tx, applied, mdioVars>>

(* A bug to compare with: a frame without a pbuf leaves eth_loop early.    *)
ReturnEarly ==
  /\ pc = "receive"
  /\ buffer' = "old"
  /\ Goto("timeouts")
  /\ UNCHANGED <<step, linkUp, p, owned, damaged, rx, sender, applied, mdioVars>>

NoPbuf ==
  /\ pc = "receive"
  /\ buffer' = "old"
  /\ Goto("construct")
  /\ UNCHANGED <<step, linkUp, p, owned, damaged, rx, sender, applied, mdioVars>>

(* sys_check_timeouts, and what the program sends before it comes back.    *)
Timeouts ==
  /\ pc = "timeouts"
  /\ \/ Goto("loop") /\ UNCHANGED back
     \/ Goto("copy") /\ back' = "loop"
  /\ UNCHANGED <<step, linkUp, p, receiver, tx, applied, mdioVars>>

------------------------------------------------------------------------------
(* eth0_tx: one buffer and one descriptor for every frame; the HAL waits   *)
(* for the controller before and after.                                    *)

(* pbuf_copy_partial overwrites the one buffer, whatever tx does.          *)
Copy ==
  /\ pc = "copy"
  /\ Goto("send")
  /\ UNCHANGED <<step, linkUp, p, receiver, sender, applied, mdioVars>>

Send ==
  /\ pc = "send" /\ tx = "idle"
  /\ tx' = "busy"
  /\ Goto("sent")
  /\ UNCHANGED <<step, linkUp, p, receiver, back, applied, mdioVars>>

(* A bug to compare with: nobody waits for the frame to leave.             *)
SentUnseen ==
  /\ pc = "sent"
  /\ Goto(back)
  /\ UNCHANGED <<step, linkUp, p, receiver, sender, applied, mdioVars>>

Sent ==
  /\ pc = "sent" /\ tx = "idle"
  /\ Goto(back)
  /\ UNCHANGED <<step, linkUp, p, receiver, sender, applied, mdioVars>>

Program ==
  \/ InitLoad \/ InitStore \/ InitNext \/ ResetLoad \/ ResetCheck
  \/ Construct \/ Start
  \/ LoopLoad \/ Link \/ CheckStatus \/ Input \/ NoPbuf \/ Timeouts
  \/ Copy \/ Send \/ Sent

------------------------------------------------------------------------------
(* The hardware.                                                           *)

Zero(n) == [i \in 1 .. n |-> 0]

(* A controller that runs takes the next frame, writes the descriptor back *)
(* and is idle a little later.                                             *)
RxBegin ==
  /\ rx = "waiting" /\ rx' = "writing"
  /\ buffer' = "partial"
  /\ UNCHANGED <<driver, owned, damaged, sender, applied, mdioVars>>

RxEnd ==
  /\ rx = "writing" /\ rx' = "finishing"
  /\ owned' = FALSE /\ damaged' \in BOOLEAN
  /\ buffer' = IF damaged' THEN "damaged" ELSE "new"
  /\ UNCHANGED <<driver, sender, applied, mdioVars>>

RxIdle ==
  /\ rx = "finishing" /\ rx' = "idle"
  /\ UNCHANGED <<driver, owned, damaged, buffer, sender, applied, mdioVars>>

TxIdle ==
  /\ tx = "busy" /\ tx' = "idle"
  /\ UNCHANGED <<driver, receiver, back, applied, mdioVars>>

(* A reset takes the configuration over and clears its own bit.            *)
PhyReset ==
  /\ registers[Control][ResetBit] = 1
  /\ PhyChanges(Control, [registers[Control] EXCEPT ![ResetBit] = 0])
  /\ applied' = [r \in {Config1, Config2} |-> registers[r]]
  /\ UNCHANGED <<driver, receiver, sender>>

PhyLink ==
  /\ PhyChanges(Status, [registers[Status] EXCEPT ![LinkBit] = 1 - @])
  /\ UNCHANGED <<driver, receiver, sender, applied>>

Clock  == Tick /\ UNCHANGED <<driver, receiver, sender, applied>>
Answer == Complete /\ UNCHANGED <<driver, receiver, sender, applied>>

Hardware == RxBegin \/ RxEnd \/ RxIdle \/ TxIdle \/ PhyReset \/ PhyLink

Init ==
  /\ readdata = Zero(DataBits) /\ writedata = Zero(DataBits) /\ result = Zero(DataBits)
  /\ word = Zero(DataBits) /\ address = Zero(RegBits) /\ registers = PowerUp
  /\ MdioInit
  /\ pc = "init" /\ step = 0 /\ linkUp = FALSE /\ p = "none"
  /\ owned = FALSE /\ damaged = FALSE /\ rx = "idle" /\ buffer = "old"
  /\ tx = "idle" /\ back = "loop"
  /\ applied = [r \in {Config1, Config2} |-> PowerUp[r]]

Next == Program \/ Clock \/ Answer \/ Hardware

Spec == Init /\ [][Next]_vars

(* The CPU and the clock run; a transfer and a reset that have begun end.  *)
(* Frames and the link are not promised.                                   *)
FairSpec ==
  /\ Spec
  /\ WF_vars(Program) /\ WF_vars(Clock) /\ WF_vars(Answer)
  /\ WF_vars(RxEnd) /\ WF_vars(RxIdle) /\ WF_vars(TxIdle) /\ WF_vars(PhyReset)

------------------------------------------------------------------------------
(* Properties.                                                             *)

Labels == {"init", "set", "wrote", "reset", "construct", "start", "loop", "link",
           "check", "receive", "timeouts", "copy", "send", "sent"}

(* The types; the controller works on the descriptor only while it owns it. *)
TypeOK ==
  /\ MdioTypeOK
  /\ pc \in Labels /\ step \in 0 .. 3
  /\ linkUp \in BOOLEAN /\ owned \in BOOLEAN /\ damaged \in BOOLEAN
  /\ {p, buffer} \subseteq {"none", "old", "partial", "new", "damaged"}
  /\ rx \in {"idle", "waiting", "writing", "finishing"}
  /\ tx \in {"idle", "busy"} /\ back \in {"check", "construct", "loop"}
  /\ applied \in [{Config1, Config2} -> Words]
  /\ rx \in {"waiting", "writing"} => owned /\ ~ damaged

(* Once eth_loop runs the PHY works with its power-up configuration and    *)
(* the bits of eth0_init, and no others: what was read over the bus was    *)
(* the register's word, and the reset came after both (lines 138-141).     *)
Configured ==
  pc \notin {"init", "set", "wrote", "reset"} =>
    applied = [r \in {Config1, Config2} |-> WithBits(PowerUp[r], SetBits[r])]

(* The stack is handed whole frames, each once; a whole frame is never     *)
(* overwritten before eth_loop has taken or dropped it, nor a frame to     *)
(* send while the controller still reads it (lines 84-93, 171-173).        *)
BuffersKept ==
  [][/\ p' # p => p' \in {"none", "new"}
     /\ buffer = "new" => buffer' \in {"new", "old"}
     /\ pc = "copy" /\ pc' = "send" => tx = "idle"]_vars

(* After each good frame the receiver is started again, with or without a  *)
(* pbuf for it, unless the controller was still busy when it was started:  *)
(* then the call does nothing, and nobody will repeat it.                  *)
Refused == owned /\ rx = "idle" /\ pc # "start"
ReceiverRestarts == buffer = "new" ~> rx = "waiting" \/ Refused

(* A damaged frame ends the reception for good: the check of the status is *)
(* also false after an error, and no other line starts the receiver.       *)
DamageIsFinal == [][damaged => damaged' /\ rx' \notin {"waiting", "writing"}]_vars

(* A link that stays up or down is known to the stack in the end, so the   *)
(* reset is over and no access, frame or transfer holds eth_loop up.       *)
LinkFollows ==
  \A v \in Bit :
    <>[](registers[Status][LinkBit] = v) => <>[](linkUp = (v = 1))
=============================================================================
