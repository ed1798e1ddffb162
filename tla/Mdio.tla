-------------------------------- MODULE Mdio --------------------------------
(***************************************************************************)
(* The MDIO master (rtl/lantian_mdio/lantian_mdio.sv), one clock at a      *)
(* time, between the CPU's bus and a PHY.  A frame is the 32 states of the *)
(* source's state machine from START_0 to DATA_15; a state lasts one       *)
(* period of mdc, which rises in its middle.                               *)
(*                                                                         *)
(* The CPU's bus and the PHY are external: the bus keeps a request until   *)
(* waitrequest falls; the PHY takes the line at each rise of mdc.          *)
(***************************************************************************)
EXTENDS Integers, Sequences

CONSTANTS
  CLOCK_DIVIDER,                 \* the counter's first value
  PhyBits, RegBits, DataBits,    \* 5, 5 and 16 in the source
  phy_addr                       \* the input of that name; the PHY's address

ASSUME DividerAssumption == CLOCK_DIVIDER \in 2 .. 63   \* the counter has 6 bits
ASSUME WidthAssumption == {PhyBits, RegBits, DataBits} \subseteq Nat \ {0}

Bit       == {0, 1}
Words     == [1 .. DataBits -> Bit]   \* the most significant bit first
Registers == [1 .. RegBits -> Bit]
ASSUME AddressAssumption == phy_addr \in [1 .. PhyBits -> Bit]

VARIABLES
  counter, access, bit,     \* state_current: the kind of frame and its state
  readdata,                 \* avalon_slave_readdata
  op, address, writedata,   \* the bus: read or write, and its operands
  result,                   \* what the last load gave the program
  heard, idle,              \* the PHY: the bits of this frame; a released bit since the last one
  word, registers           \* the word it sends or has taken; its registers

bus    == <<op, address, writedata>>
master == <<counter, access, bit, readdata>>
phy    == <<heard, idle, word, registers>>
mdioVars == <<bus, result, master, phy>>

------------------------------------------------------------------------------
(* The frame.  bit is 0 in PREP, where nothing is driven, and Done in DONE. *)

RegFrom  == 4 + PhyBits
HeadEnd  == RegFrom + RegBits    \* the last bit of the register's address
DataFrom == HeadEnd + 2          \* two bits of turnaround
FrameEnd == DataFrom + DataBits
Done     == FrameEnd + 1

Opcode(kind) == IF kind = "read" THEN <<1, 0>> ELSE <<0, 1>>

(* mdio_out, which follows the bus: it is not latched.                     *)
mdio_out ==
  IF bit <= 2 THEN bit - 1
  ELSE IF bit <= 4 THEN Opcode(access)[bit - 2]
  ELSE IF bit <= RegFrom THEN phy_addr[bit - 4]
  ELSE IF bit <= HeadEnd THEN address[bit - RegFrom]
  ELSE IF bit > DataFrom THEN writedata[bit - DataFrom]
  ELSE IF access = "write" /\ bit < DataFrom THEN 1 ELSE 0

(* A bug to compare with: a read keeps the line for its data.              *)
DrivingOn == access # "none" /\ bit \in 1 .. FrameEnd

(* ~ mdio_oen.  In a read the second turnaround bit is driven, too.        *)
Driving ==
  \/ access = "write" /\ bit \in 1 .. FrameEnd
  \/ access = "read" /\ bit \in (1 .. HeadEnd) \cup {DataFrom}

------------------------------------------------------------------------------
(* The PHY, as far as a frame needs it.                                    *)

Field(h, from, width) == [i \in 1 .. width |-> h[from + i]]

ForMe(h, kind) ==
  /\ <<h[3], h[4]>> = Opcode(kind)
  /\ Field(h, 4, PhyBits) = phy_addr

(* After the first turnaround bit it drives a 0, then its word.            *)
PhyDriving == Len(heard) > HeadEnd /\ ForMe(heard, "read")
PhyOut == IF Len(heard) = HeadEnd + 1 THEN 0 ELSE word[Len(heard) - DataFrom + 1]

(* A line nobody drives is pulled up.                                      *)
Line == IF Driving THEN mdio_out ELSE IF PhyDriving THEN PhyOut ELSE 1

Listen ==
  LET h == Append(heard, Line)
      r == Field(h, RegFrom, RegBits)
      taken == Len(h) = FrameEnd /\ ForMe(h, "write")
      data == Field(h, DataFrom, DataBits)
  IN  IF heard = <<>> /\ Line = 1
      THEN idle' = TRUE /\ UNCHANGED <<heard, word, registers>>
      ELSE /\ idle' = FALSE
           /\ heard' = IF Len(h) = FrameEnd THEN <<>> ELSE h
           /\ word' = IF Len(h) = HeadEnd /\ ForMe(h, "read") THEN registers[r]
                      ELSE IF taken THEN data ELSE word
           /\ registers' = IF taken THEN [registers EXCEPT ![r] = data] ELSE registers

------------------------------------------------------------------------------
(* One clock.                                                              *)

CLOCK_DIVIDER_HALF == CLOCK_DIVIDER \div 2
mdc    == counter < CLOCK_DIVIDER_HALF
Rising == counter = CLOCK_DIVIDER_HALF   \* mdc rises at the end of this clock

Count == counter' = IF counter = 0 THEN CLOCK_DIVIDER ELSE counter - 1

waitrequest == access = "none" \/ bit # Done

(* A bug to compare with: the frame starts with the clock of the request,  *)
(* not with the next period of mdc.                                        *)
NoPrep ==
  \/ access = "none" /\ access' = op /\ bit' = IF op = "none" THEN 0 ELSE 1
  \/ /\ access # "none" /\ waitrequest
     /\ bit' = IF counter = 0 THEN bit + 1 ELSE bit
     /\ UNCHANGED access
  \/ ~ waitrequest /\ op = access /\ UNCHANGED <<access, bit>>
  \/ ~ waitrequest /\ op # access /\ access' = "none" /\ bit' = 0

NextState ==
  \/ access = "none" /\ access' = op /\ bit' = 0
  \/ /\ access # "none" /\ waitrequest
     /\ bit' = IF counter = 0 THEN bit + 1 ELSE bit
     /\ UNCHANGED access
  \/ ~ waitrequest /\ op = access /\ UNCHANGED <<access, bit>>
  \/ ~ waitrequest /\ op # access /\ access' = "none" /\ bit' = 0

(* A bug to compare with: every bit is taken one period early.             *)
CaptureEarly ==
  readdata' = IF access = "read" /\ bit \in DataFrom .. FrameEnd - 1
              THEN [readdata EXCEPT ![bit - DataFrom + 1] = Line]
              ELSE readdata

Capture ==
  readdata' = IF access = "read" /\ bit \in DataFrom + 1 .. FrameEnd
              THEN [readdata EXCEPT ![bit - DataFrom] = Line]
              ELSE readdata

Tick ==
  /\ Count
  /\ NextState
  /\ IF Rising THEN Capture /\ Listen ELSE UNCHANGED <<readdata, phy>>
  /\ UNCHANGED <<bus, result>>

------------------------------------------------------------------------------
(* The bus and the rest of the PHY.                                        *)

(* The Nios II makes one access per instruction: its next request comes at *)
(* least one clock after the last one was answered, and DONE is left then. *)
Ask(kind, r, w) ==
  /\ op = "none" /\ waitrequest
  /\ op' = kind /\ address' = r /\ writedata' = w
  /\ UNCHANGED <<result, master, phy>>

Complete ==
  /\ op # "none" /\ ~ waitrequest
  /\ op' = "none"
  /\ result' = IF op = "read" THEN readdata ELSE result
  /\ UNCHANGED <<address, writedata, master, phy>>

PhyChanges(r, w) ==
  /\ registers' = [registers EXCEPT ![r] = w]
  /\ UNCHANGED <<bus, result, master, heard, idle, word>>

MdioInit ==
  /\ counter = 0 /\ access = "none" /\ bit = 0 /\ readdata \in Words
  /\ op = "none" /\ address \in Registers /\ writedata \in Words /\ result \in Words
  /\ heard = <<>> /\ idle = FALSE /\ word \in Words /\ registers \in [Registers -> Words]

MdioNext ==
  \/ Tick
  \/ Complete
  \/ \E r \in Registers, w \in Words :
       PhyChanges(r, w) \/ \E kind \in {"read", "write"} : Ask(kind, r, w)

MdioSpec == MdioInit /\ [][MdioNext]_mdioVars

------------------------------------------------------------------------------
(* Properties.                                                             *)

(* The types; the PHY never hears a bit of a frame outside a frame.        *)
MdioTypeOK ==
  /\ counter \in 0 .. CLOCK_DIVIDER
  /\ access \in {"none", "read", "write"} /\ bit \in 0 .. Done
  /\ {readdata, writedata, result, word} \subseteq Words
  /\ op \in {"none", "read", "write"} /\ address \in Registers
  /\ heard \in Seq(Bit) /\ Len(heard) < FrameEnd /\ idle \in BOOLEAN
  /\ registers \in [Registers -> Words]

(* A PHY that is spared the preamble needs a released bit before a frame:  *)
(* however the requests fall against mdc, there is one (PREP and DONE      *)
(* release the line, lantian_mdio.sv lines 338-340).                       *)
FramesSeparated == [][heard = <<>> /\ heard' # <<>> => idle]_mdioVars

(* An access is one atomic access of the register that was asked for, and  *)
(* what a load returns is one word the register held meanwhile.            *)
NoAnswer == <<>>
Performed ==
  LET last == IF access = "read" THEN HeadEnd ELSE FrameEnd
  IN  /\ access # "none" /\ op = access
      /\ bit > last \/ (bit = last /\ mdc)

Access == INSTANCE RegisterAccess WITH
  answer <- IF Performed THEN word ELSE NoAnswer

AtomicAccess == Access!Spec

(* At a rise of mdc, where both sides sample the line, the master and the  *)
(* PHY never drive it against each other, although the master drives the   *)
(* second turnaround bit of a read (line 390).  Nothing is said of the     *)
(* high half that follows the rise.                                        *)
NoContention == Rising /\ Driving /\ PhyDriving => mdio_out = PhyOut
=============================================================================
