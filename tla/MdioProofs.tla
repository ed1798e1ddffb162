----------------------------- MODULE MdioProofs -----------------------------
(***************************************************************************)
(* For every divider and every width of the fields: the PHY hears exactly  *)
(* the frames the master sends, so an access is atomic, frames are kept    *)
(* apart, and the line is never driven both ways when it is read.          *)
(***************************************************************************)
EXTENDS Mdio, TLAPS

InFrame == access # "none" /\ bit \in 1 .. FrameEnd

(* The PHY is one bit behind until mdc rises, and then level.              *)
Position ==
  IF ~ InFrame THEN 0
  ELSE IF ~ mdc THEN bit - 1
  ELSE IF bit = FrameEnd THEN 0 ELSE bit

LockStep ==
  /\ access = "none" => bit = 0
  /\ access # "none" /\ bit # Done => op = access
  /\ bit = Done => op \in {"none", access}
  /\ Len(heard) = Position

(* Whoever is between two frames has seen a released bit by the time mdc   *)
(* is high; only at the reset is mdc high before the first bit.            *)
Released ==
  /\ ~ InFrame /\ mdc /\ (access # "none" \/ counter # 0) => idle
  /\ InFrame /\ bit = 1 /\ ~ mdc => idle

HeadBits(h) ==
  \A i \in 1 .. Len(h) :
    /\ i \in 1 .. 2 => h[i] = i - 1
    /\ i \in 3 .. 4 => h[i] = Opcode(access)[i - 2]
    /\ i \in 5 .. RegFrom => h[i] = phy_addr[i - 4]
    /\ i \in RegFrom + 1 .. HeadEnd => h[i] = address[i - RegFrom]

DataBitsOf(h) ==
  \A i \in 1 .. Len(h) :
    i \in DataFrom + 1 .. FrameEnd => h[i] = writedata[i - DataFrom]

HeadHeard == InFrame => HeadBits(heard)
DataHeard == InFrame /\ access = "write" => DataBitsOf(heard)

Captured ==
  access = "read" => \A j \in 1 .. DataBits :
    DataFrom + j < bit \/ (DataFrom + j = bit /\ mdc) => readdata[j] = word[j]

IInv == MdioTypeOK /\ LockStep /\ Released /\ HeadHeard /\ DataHeard /\ Captured

------------------------------------------------------------------------------
(* The frame's fields, as natural numbers.                                 *)

LEMMA Widths ==
  /\ PhyBits \in Nat \ {0} /\ RegBits \in Nat \ {0} /\ DataBits \in Nat \ {0}
  /\ RegFrom \in Nat /\ HeadEnd \in Nat /\ DataFrom \in Nat /\ FrameEnd \in Nat
  /\ RegFrom = 4 + PhyBits /\ HeadEnd = RegFrom + RegBits /\ DataFrom = HeadEnd + 2
  /\ FrameEnd = DataFrom + DataBits /\ Done = FrameEnd + 1
  BY WidthAssumption DEF RegFrom, HeadEnd, DataFrom, FrameEnd, Done

LEMMA Half ==
  /\ CLOCK_DIVIDER \in Nat /\ CLOCK_DIVIDER_HALF \in Nat
  /\ 0 < CLOCK_DIVIDER_HALF /\ CLOCK_DIVIDER_HALF < CLOCK_DIVIDER
  BY DividerAssumption DEF CLOCK_DIVIDER_HALF

LEMMA Opcodes ==
  /\ Opcode("read") = <<1, 0>> /\ Opcode("write") = <<0, 1>>
  /\ Opcode("read") # Opcode("write")
  BY DEF Opcode

LEMMA DrivenBit ==
  ASSUME MdioTypeOK, Driving
  PROVE  /\ mdio_out \in Bit
         /\ bit \in 1 .. 2 => mdio_out = bit - 1
         /\ bit \in 3 .. 4 => mdio_out = Opcode(access)[bit - 2]
         /\ bit \in 5 .. RegFrom => mdio_out = phy_addr[bit - 4]
         /\ bit \in RegFrom + 1 .. HeadEnd => mdio_out = address[bit - RegFrom]
         /\ bit \in DataFrom + 1 .. FrameEnd => mdio_out = writedata[bit - DataFrom]
<1>1. bit \in 1 .. FrameEnd /\ bit \in Nat
  BY Widths DEF Driving, MdioTypeOK
<1>2. CASE bit \in 1 .. 2
  <2>1. mdio_out = bit - 1
    BY <1>2, Widths DEF mdio_out
  <2> QED BY <1>2, <2>1, Widths DEF Bit
<1>3. CASE bit \in 3 .. 4
  <2>1. mdio_out = Opcode(access)[bit - 2]
    BY <1>3, Widths DEF mdio_out
  <2>2. bit = 3 \/ bit = 4
    BY <1>3
  <2>3. Opcode(access)[1] \in Bit /\ Opcode(access)[2] \in Bit
    BY DEF Opcode, Bit
  <2> QED BY <1>3, <2>1, <2>2, <2>3, Widths
<1>4. CASE bit \in 5 .. RegFrom
  <2>1. mdio_out = phy_addr[bit - 4]
    BY <1>4, Widths DEF mdio_out
  <2>2. bit - 4 \in 1 .. PhyBits
    BY <1>4, Widths
  <2> QED BY <1>4, <2>1, <2>2, Widths, AddressAssumption
<1>5. CASE bit \in RegFrom + 1 .. HeadEnd
  <2>1. mdio_out = address[bit - RegFrom]
    BY <1>5, Widths DEF mdio_out
  <2>2. bit - RegFrom \in 1 .. RegBits
    BY <1>5, Widths
  <2>3. address \in [1 .. RegBits -> Bit]
    BY DEF MdioTypeOK, Registers
  <2> QED BY <1>5, <2>1, <2>2, <2>3, Widths
<1>6. CASE bit \in HeadEnd + 1 .. DataFrom
  <2>1. mdio_out \in {0, 1}
    BY <1>6, Widths DEF mdio_out
  <2> QED BY <1>6, <2>1, Widths DEF Bit
<1>7. CASE bit \in DataFrom + 1 .. FrameEnd
  <2>1. mdio_out = writedata[bit - DataFrom]
    BY <1>7, Widths DEF mdio_out
  <2>2. bit - DataFrom \in 1 .. DataBits
    BY <1>7, Widths
  <2>3. writedata \in [1 .. DataBits -> Bit]
    BY DEF MdioTypeOK, Words
  <2> QED BY <1>7, <2>1, <2>2, <2>3, Widths
<1> QED BY <1>1, <1>2, <1>3, <1>4, <1>5, <1>6, <1>7, Widths

LEMMA LineBit ==
  ASSUME MdioTypeOK
  PROVE  Line \in Bit
<1>1. CASE Driving
  BY <1>1, DrivenBit DEF Line
<1>2. CASE ~ Driving /\ PhyDriving
  <2>1. Len(heard) \in Nat /\ Len(heard) > HeadEnd /\ Len(heard) < FrameEnd
    BY <1>2 DEF PhyDriving, MdioTypeOK
  <2>2. Len(heard) # HeadEnd + 1 => Len(heard) - DataFrom + 1 \in 1 .. DataBits
    BY <2>1, Widths
  <2>3. word \in [1 .. DataBits -> Bit]
    BY DEF MdioTypeOK, Words
  <2>4. PhyOut \in Bit
    BY <2>2, <2>3 DEF PhyOut, Bit
  <2> QED BY <1>2, <2>4 DEF Line
<1>3. CASE ~ Driving /\ ~ PhyDriving
  BY <1>3 DEF Line, Bit
<1> QED BY <1>1, <1>2, <1>3

------------------------------------------------------------------------------
(* What the PHY makes of a whole head, and of a whole frame.               *)

LEMMA HeadFields ==
  ASSUME MdioTypeOK, access \in {"read", "write"},
         NEW h \in Seq(Bit), Len(h) >= HeadEnd, HeadBits(h), NEW kind \in {"read", "write"}
  PROVE  /\ ForMe(h, kind) <=> kind = access
         /\ Field(h, RegFrom, RegBits) = address
<1>1. Len(h) \in Nat
  OBVIOUS
<1>2. h[3] = Opcode(access)[1] /\ h[4] = Opcode(access)[2]
  <2>1. 3 \in 1 .. Len(h) /\ 4 \in 1 .. Len(h)
    BY <1>1, Widths
  <2> QED BY <2>1 DEF HeadBits
<1>3. <<h[3], h[4]>> = Opcode(access)
  BY <1>2 DEF Opcode
<1>4. Field(h, 4, PhyBits) = phy_addr
  <2>1. ASSUME NEW i \in 1 .. PhyBits
        PROVE  h[4 + i] = phy_addr[i]
    <3>1. 4 + i \in 1 .. Len(h) /\ 4 + i \in 5 .. RegFrom /\ (4 + i) - 4 = i
      BY <1>1, Widths
    <3> QED BY <3>1 DEF HeadBits
  <2> QED BY <2>1, AddressAssumption DEF Field
<1>5. Field(h, RegFrom, RegBits) = address
  <2>1. ASSUME NEW i \in 1 .. RegBits
        PROVE  h[RegFrom + i] = address[i]
    <3>1. /\ RegFrom + i \in 1 .. Len(h) /\ RegFrom + i \in RegFrom + 1 .. HeadEnd
          /\ (RegFrom + i) - RegFrom = i
      BY <1>1, Widths
    <3> QED BY <3>1 DEF HeadBits
  <2> QED BY <2>1 DEF Field, MdioTypeOK, Registers
<1>6. <<h[3], h[4]>> = Opcode(kind) <=> kind = access
  BY <1>3, Opcodes
<1> QED BY <1>4, <1>5, <1>6 DEF ForMe

LEMMA DataField ==
  ASSUME MdioTypeOK, NEW h \in Seq(Bit), Len(h) = FrameEnd, DataBitsOf(h)
  PROVE  Field(h, DataFrom, DataBits) = writedata
<1>1. ASSUME NEW i \in 1 .. DataBits
      PROVE  h[DataFrom + i] = writedata[i]
  <2>1. /\ DataFrom + i \in 1 .. Len(h) /\ DataFrom + i \in DataFrom + 1 .. FrameEnd
        /\ (DataFrom + i) - DataFrom = i
    BY Widths
  <2> QED BY <2>1 DEF DataBitsOf
<1> QED BY <1>1 DEF Field, MdioTypeOK, Words

------------------------------------------------------------------------------
(* The rise of mdc outside a frame and in it.                              *)

LEMMA OutsideFrame ==
  ASSUME IInv, Rising, Listen, ~ InFrame
  PROVE  idle' = TRUE /\ heard = <<>> /\ UNCHANGED <<heard, word, registers>>
<1>1. heard = <<>>
  <2>1. Len(heard) = 0 /\ heard \in Seq(Bit)
    BY DEF IInv, LockStep, Position, MdioTypeOK
  <2> QED BY <2>1
<1>2. ~ Driving
  <2>1. CASE access = "none"
    BY <2>1 DEF Driving
  <2>2. CASE bit \notin 1 .. FrameEnd
    BY <2>2, Widths DEF Driving
  <2> QED BY <2>1, <2>2 DEF InFrame
<1>3. ~ PhyDriving
  BY <1>1, Widths DEF PhyDriving
<1>4. Line = 1
  BY <1>2, <1>3 DEF Line
<1> QED BY <1>1, <1>4 DEF Listen

LEMMA NextBit ==
  ASSUME IInv, Rising, InFrame
  PROVE  /\ Len(heard) = bit - 1
         /\ Append(heard, Line) \in Seq(Bit) /\ Len(Append(heard, Line)) = bit
         /\ HeadBits(Append(heard, Line))
         /\ access = "write" => DataBitsOf(Append(heard, Line))
         /\ bit = 1 => Line = 0
         /\ access = "read" /\ bit > DataFrom => Line = word[bit - DataFrom]
<1> DEFINE h == Append(heard, Line)
<1>1. Len(heard) = bit - 1 /\ heard \in Seq(Bit) /\ bit \in 1 .. FrameEnd
  BY Half DEF IInv, LockStep, Position, Rising, mdc, InFrame, MdioTypeOK
<1>2. MdioTypeOK /\ Line \in Bit /\ access \in {"read", "write"}
  BY LineBit DEF IInv, MdioTypeOK, InFrame
<1>3. h \in Seq(Bit) /\ Len(h) = bit /\ h[bit] = Line
  BY <1>1, <1>2
<1>4. \A i \in 1 .. bit - 1 : h[i] = heard[i]
  BY <1>1, <1>2
<1>5. HeadBits(heard) /\ (access = "write" => DataBitsOf(heard))
  BY DEF IInv, HeadHeard, DataHeard, InFrame
<1>6. bit <= HeadEnd => Driving
  BY <1>1, <1>2, Widths DEF Driving
<1>7. Driving => Line = mdio_out
  BY DEF Line
<1>8. HeadBits(h)
  <2>1. ASSUME NEW i \in 1 .. bit
        PROVE  /\ i \in 1 .. 2 => h[i] = i - 1
               /\ i \in 3 .. 4 => h[i] = Opcode(access)[i - 2]
               /\ i \in 5 .. RegFrom => h[i] = phy_addr[i - 4]
               /\ i \in RegFrom + 1 .. HeadEnd => h[i] = address[i - RegFrom]
    <3>1. CASE i = bit
      <4>1. CASE bit <= HeadEnd
        BY <3>1, <4>1, <1>2, <1>3, <1>6, <1>7, DrivenBit
      <4>2. CASE bit > HeadEnd
        BY <3>1, <4>2, <1>1, Widths
      <4> QED BY <4>1, <4>2, <1>1, Widths
    <3>2. CASE i # bit
      <4>1. i \in 1 .. bit - 1 /\ i \in 1 .. Len(heard)
        BY <3>2, <1>1
      <4>2. h[i] = heard[i]
        BY <4>1, <1>4
      <4> QED BY <4>1, <4>2, <1>5 DEF HeadBits
    <3> QED BY <3>1, <3>2
  <2> QED BY <2>1, <1>3 DEF HeadBits
<1>9. ASSUME access = "write"
      PROVE  DataBitsOf(h)
  <2>1. Driving
    BY <1>1, <1>9 DEF Driving
  <2>2. ASSUME NEW i \in 1 .. bit, i \in DataFrom + 1 .. FrameEnd
        PROVE  h[i] = writedata[i - DataFrom]
    <3>1. CASE i = bit
      BY <3>1, <2>1, <2>2, <1>2, <1>3, <1>7, DrivenBit
    <3>2. CASE i # bit
      <4>1. i \in 1 .. bit - 1 /\ i \in 1 .. Len(heard)
        BY <3>2, <1>1
      <4> QED BY <4>1, <2>2, <1>4, <1>5, <1>9 DEF DataBitsOf
    <3> QED BY <3>1, <3>2
  <2> QED BY <2>2, <1>3 DEF DataBitsOf
<1>10. bit = 1 => Line = 0
  <2>1. bit = 1 => bit <= HeadEnd /\ bit \in 1 .. 2
    BY Widths
  <2> QED BY <2>1, <1>2, <1>6, <1>7, DrivenBit
<1>11. ASSUME access = "read", bit > DataFrom
       PROVE  Line = word[bit - DataFrom]
  <2>1. ~ Driving
    BY <1>11, <1>1, Widths DEF Driving
  <2>2. Len(heard) >= HeadEnd /\ Len(heard) > HeadEnd
    BY <1>11, <1>1, Widths
  <2>3. ForMe(heard, "read")
    BY <2>2, <1>1, <1>2, <1>5, <1>11, HeadFields
  <2>4. PhyOut = word[bit - DataFrom]
    BY <1>1, <1>11, Widths DEF PhyOut
  <2> QED BY <2>1, <2>2, <2>3, <2>4 DEF Line, PhyDriving
<1> QED BY <1>1, <1>3, <1>8, <1>9, <1>10, <1>11

LEMMA InsideFrame ==
  ASSUME IInv, Rising, Listen, InFrame
  PROVE  /\ idle' = FALSE
         /\ heard' = IF bit = FrameEnd THEN <<>> ELSE Append(heard, Line)
         /\ word' = IF access = "read" /\ bit = HeadEnd THEN registers[address]
                    ELSE IF access = "write" /\ bit = FrameEnd THEN writedata ELSE word
         /\ registers' = IF access = "write" /\ bit = FrameEnd
                         THEN [registers EXCEPT ![address] = writedata] ELSE registers
<1> DEFINE h == Append(heard, Line)
<1>1. /\ MdioTypeOK /\ access \in {"read", "write"} /\ bit \in 1 .. FrameEnd
  BY DEF IInv, InFrame, MdioTypeOK
<1>2. /\ Len(heard) = bit - 1 /\ h \in Seq(Bit) /\ Len(h) = bit /\ HeadBits(h)
      /\ access = "write" => DataBitsOf(h)
      /\ bit = 1 => Line = 0
  BY NextBit
<1>3. ~ (heard = <<>> /\ Line = 1)
  BY <1>2
<1>4. bit >= HeadEnd =>
        /\ ForMe(h, "read") <=> access = "read"
        /\ ForMe(h, "write") <=> access = "write"
        /\ Field(h, RegFrom, RegBits) = address
  BY <1>1, <1>2, HeadFields
<1>5. bit = FrameEnd /\ access = "write" => Field(h, DataFrom, DataBits) = writedata
  BY <1>1, <1>2, DataField
<1>6. FrameEnd >= HeadEnd /\ FrameEnd # HeadEnd
  BY Widths
<1>7. Len(h) = HeadEnd /\ ForMe(h, "read") <=> access = "read" /\ bit = HeadEnd
  BY <1>2, <1>4, Widths
<1>8. Len(h) = FrameEnd /\ ForMe(h, "write") <=> access = "write" /\ bit = FrameEnd
  BY <1>2, <1>4, <1>6, Widths
<1> QED BY <1>2, <1>3, <1>4, <1>5, <1>6, <1>7, <1>8 DEF Listen

------------------------------------------------------------------------------
(* One clock.                                                              *)

LEMMA Clocked ==
  ASSUME MdioTypeOK, Count
  PROVE  /\ counter' \in 0 .. CLOCK_DIVIDER
         /\ counter = 0 => mdc /\ ~ mdc' /\ ~ Rising
         /\ Rising => ~ mdc /\ mdc'
         /\ counter # 0 /\ ~ Rising => (mdc' <=> mdc)
         /\ counter # 0 /\ mdc' => counter # CLOCK_DIVIDER
  BY Half DEF MdioTypeOK, Count, mdc, Rising

LEMMA StateTypes ==
  ASSUME IInv, Tick
  PROVE  access' \in {"none", "read", "write"} /\ bit' \in 0 .. Done
<1>1. bit # Done /\ bit \in 0 .. Done => bit + 1 \in 0 .. Done
  BY Widths
<1> QED BY <1>1, Widths DEF IInv, MdioTypeOK, Tick, NextState, waitrequest

LEMMA CaptureTypes ==
  ASSUME MdioTypeOK, Capture
  PROVE  readdata' \in Words
<1>1. CASE access = "read" /\ bit \in DataFrom + 1 .. FrameEnd
  <2>1. bit - DataFrom \in 1 .. DataBits /\ Line \in Bit
    BY <1>1, Widths, LineBit
  <2> QED BY <1>1, <2>1 DEF Capture, MdioTypeOK, Words
<1>2. CASE ~ (access = "read" /\ bit \in DataFrom + 1 .. FrameEnd)
  BY <1>2 DEF Capture, MdioTypeOK
<1> QED BY <1>1, <1>2

LEMMA TickTypes ==
  ASSUME IInv, Tick
  PROVE  MdioTypeOK'
<1>1. /\ MdioTypeOK /\ counter' \in 0 .. CLOCK_DIVIDER
      /\ UNCHANGED <<op, address, writedata, result>>
  BY Clocked DEF IInv, Tick, bus
<1>2. access' \in {"none", "read", "write"} /\ bit' \in 0 .. Done
  BY StateTypes
<1>3. CASE ~ Rising
  <2>1. UNCHANGED <<readdata, heard, idle, word, registers>>
    BY <1>3 DEF Tick, phy
  <2> QED BY <1>1, <1>2, <2>1 DEF MdioTypeOK
<1>4. CASE Rising /\ ~ InFrame
  <2>1. readdata' \in Words /\ idle' = TRUE /\ UNCHANGED <<heard, word, registers>>
    BY <1>1, <1>4, CaptureTypes, OutsideFrame DEF Tick
  <2> QED BY <1>1, <1>2, <2>1 DEF MdioTypeOK
<1>5. CASE Rising /\ InFrame
  <2>1. Capture /\ Listen
    BY <1>5 DEF Tick
  <2>2. readdata' \in Words
    BY <1>1, <2>1, CaptureTypes
  <2>3. word' \in Words /\ registers' \in [Registers -> Words] /\ idle' \in BOOLEAN
    BY <1>1, <1>5, <2>1, InsideFrame DEF MdioTypeOK
  <2>4. heard' \in Seq(Bit) /\ Len(heard') < FrameEnd
    <3>1. bit \in 1 .. FrameEnd
      BY <1>5 DEF InFrame
    <3>2. CASE bit = FrameEnd
      <4>1. heard' = <<>>
        BY <1>5, <2>1, <3>2, InsideFrame
      <4> QED BY <4>1, Widths
    <3>3. CASE bit # FrameEnd
      <4>1. heard' = Append(heard, Line)
        BY <1>5, <2>1, <3>3, InsideFrame
      <4>2. heard' \in Seq(Bit) /\ Len(heard') = bit
        BY <1>5, <4>1, NextBit
      <4> QED BY <3>1, <3>3, <4>2, Widths
    <3> QED BY <3>2, <3>3
  <2> QED BY <1>1, <1>2, <2>2, <2>3, <2>4 DEF MdioTypeOK
<1> QED BY <1>3, <1>4, <1>5

(* How a clock moves between the inside and the outside of a frame.        *)
LEMMA FrameMoves ==
  ASSUME IInv, Tick
  PROVE  /\ InFrame /\ counter # 0 =>
              InFrame' /\ bit' = bit /\ access' = access
         /\ InFrame /\ counter = 0 =>
              /\ access' = access /\ bit' = bit + 1
              /\ InFrame' <=> bit # FrameEnd
         /\ ~ InFrame /\ InFrame' => counter = 0 /\ bit' = 1 /\ access' = access /\ bit = 0
<1>1. MdioTypeOK /\ bit \in 0 .. Done /\ NextState
  BY DEF IInv, MdioTypeOK, Tick
<1>2. CASE InFrame
  <2>1. access # "none" /\ bit \in 1 .. FrameEnd /\ bit # Done
    BY <1>2, Widths DEF InFrame
  <2>2. access' = access /\ bit' = IF counter = 0 THEN bit + 1 ELSE bit
    BY <1>1, <2>1 DEF NextState, waitrequest
  <2> QED BY <1>2, <2>1, <2>2, Widths DEF InFrame
<1>3. CASE ~ InFrame
  <2>1. access = "none" \/ bit = 0 \/ bit = Done
    BY <1>1, <1>3, Widths DEF InFrame
  <2>2. CASE access = "none" \/ bit = Done
    <3>1. access' = "none" \/ bit' = 0 \/ bit' = Done
      BY <1>1, <2>2 DEF NextState, waitrequest
    <3> QED BY <1>3, <3>1, Widths DEF InFrame
  <2>3. CASE access # "none" /\ bit = 0
    <3>1. access' = access /\ bit' = IF counter = 0 THEN 1 ELSE 0
      BY <1>1, <2>3, Widths DEF NextState, waitrequest
    <3> QED BY <1>3, <2>3, <3>1, Widths DEF InFrame
  <2> QED BY <2>1, <2>2, <2>3
<1> QED BY <1>2, <1>3

LEMMA TickLockStep ==
  ASSUME IInv, Tick
  PROVE  LockStep'
<1>1. MdioTypeOK /\ NextState /\ op' = op /\ bit \in 0 .. Done
  BY DEF IInv, MdioTypeOK, Tick, bus
<1>2. /\ access' = "none" => bit' = 0
      /\ access' # "none" /\ bit' # Done => op' = access'
      /\ bit' = Done => op' \in {"none", access'}
  BY <1>1, Widths DEF IInv, LockStep, NextState, waitrequest
<1>3. Len(heard') = Position'
  <2>1. Count
    BY DEF Tick
  <2>2. CASE ~ InFrame
    <3>1. Len(heard') = 0
      <4>1. Len(heard) = 0
        BY <2>2 DEF IInv, LockStep, Position
      <4>2. CASE Rising
        BY <2>2, <4>1, <4>2, OutsideFrame DEF Tick
      <4>3. CASE ~ Rising
        BY <4>1, <4>3 DEF Tick, phy
      <4> QED BY <4>2, <4>3
    <3>2. Position' = 0
      BY <1>1, <2>1, <2>2, FrameMoves, Clocked DEF Position
    <3> QED BY <3>1, <3>2
  <2>3. CASE InFrame /\ counter = 0
    <3>1. /\ mdc /\ ~ mdc' /\ heard' = heard
      BY <1>1, <2>1, <2>3, Clocked DEF Tick, phy
    <3>2. Len(heard) = IF bit = FrameEnd THEN 0 ELSE bit
      BY <2>3, <3>1 DEF IInv, LockStep, Position
    <3>3. Position' = IF bit = FrameEnd THEN 0 ELSE (bit + 1) - 1
      BY <2>3, <3>1, FrameMoves DEF Position
    <3> QED BY <1>1, <3>1, <3>2, <3>3, Widths
  <2>4. CASE InFrame /\ counter # 0 /\ ~ Rising
    BY <1>1, <2>1, <2>4, FrameMoves, Clocked DEF Tick, phy, IInv, LockStep, Position
  <2>5. CASE InFrame /\ Rising
    <3>1. counter # 0 /\ mdc'
      BY <1>1, <2>1, <2>5, Clocked
    <3>2. Position' = IF bit = FrameEnd THEN 0 ELSE bit
      BY <2>5, <3>1, FrameMoves DEF Position
    <3>3. Len(heard') = IF bit = FrameEnd THEN 0 ELSE bit
      <4>1. heard' = IF bit = FrameEnd THEN <<>> ELSE Append(heard, Line)
        BY <2>5, InsideFrame DEF Tick
      <4> QED BY <2>5, <4>1, NextBit
    <3> QED BY <3>2, <3>3
  <2> QED BY <2>2, <2>3, <2>4, <2>5
<1> QED BY <1>2, <1>3 DEF LockStep

LEMMA TickReleased ==
  ASSUME IInv, Tick
  PROVE  Released'
<1>1. MdioTypeOK /\ Count /\ Released
  BY DEF IInv, Tick
<1>2. CASE Rising
  <2>1. counter # 0 /\ mdc'
    BY <1>1, <1>2, Clocked
  <2>2. ~ InFrame => idle'
    BY <1>2, OutsideFrame DEF Tick
  <2>3. InFrame => InFrame'
    BY <2>1, FrameMoves
  <2> QED BY <2>1, <2>2, <2>3 DEF Released
<1>3. CASE ~ Rising
  <2>1. idle' = idle
    BY <1>3 DEF Tick, phy
  <2>2. CASE ~ InFrame' /\ mdc'
    <3>1. counter # 0 /\ mdc
      BY <1>1, <1>3, <2>2, Clocked
    <3>2. ~ InFrame
      BY <2>2, <3>1, FrameMoves
    <3> QED BY <1>1, <2>1, <2>2, <3>1, <3>2 DEF Released
  <2>3. CASE InFrame' /\ bit' = 1 /\ ~ mdc'
    <3>1. CASE ~ InFrame
      <4>1. counter = 0 /\ access # "none"
        BY <2>3, <3>1, FrameMoves DEF InFrame
      <4> QED BY <1>1, <2>1, <2>3, <3>1, <4>1, Clocked DEF Released
    <3>2. CASE InFrame /\ counter # 0
      BY <1>1, <1>3, <2>1, <2>3, <3>2, FrameMoves, Clocked DEF Released
    <3>3. CASE InFrame /\ counter = 0
      <4>1. bit \in 1 .. FrameEnd /\ bit + 1 = 1
        BY <2>3, <3>3, FrameMoves DEF InFrame
      <4> QED BY <4>1, Widths
    <3> QED BY <3>1, <3>2, <3>3
  <2> QED BY <2>2, <2>3 DEF Released
<1> QED BY <1>2, <1>3

LEMMA TickHeard ==
  ASSUME IInv, Tick
  PROVE  HeadHeard' /\ DataHeard'
<1>1. MdioTypeOK /\ Count /\ UNCHANGED <<address, writedata>> /\ heard \in Seq(Bit)
  BY DEF IInv, Tick, bus, MdioTypeOK
<1>2. SUFFICES ASSUME InFrame'
               PROVE  HeadBits(heard)' /\ (access' = "write" => DataBitsOf(heard)')
  BY DEF HeadHeard, DataHeard
<1>3. CASE heard' = <<>>
  BY <1>3 DEF HeadBits, DataBitsOf
<1>4. CASE heard' # <<>>
  <2>1. InFrame
    <3>1. SUFFICES ASSUME ~ InFrame
                   PROVE  FALSE
      OBVIOUS
    <3>2. Len(heard) = 0
      BY <3>1 DEF IInv, LockStep, Position
    <3>3. heard = <<>>
      BY <1>1, <3>2
    <3>4. heard' = heard
      <4>1. CASE Rising
        BY <3>1, <4>1, OutsideFrame DEF Tick
      <4>2. CASE ~ Rising
        BY <4>2 DEF Tick, phy
      <4> QED BY <4>1, <4>2
    <3> QED BY <1>4, <3>3, <3>4
  <2>2. access' = access
    BY <2>1, FrameMoves
  <2>3. /\ HeadBits(heard) /\ (access = "write" => DataBitsOf(heard))
    BY <2>1 DEF IInv, HeadHeard, DataHeard
  <2>4. CASE ~ Rising
    <3>1. heard' = heard
      BY <2>4 DEF Tick, phy
    <3> QED BY <1>1, <2>2, <2>3, <3>1 DEF HeadBits, DataBitsOf
  <2>5. CASE Rising
    <3>1. heard' = Append(heard, Line)
      BY <1>4, <2>1, <2>5, InsideFrame DEF Tick
    <3>2. /\ HeadBits(Append(heard, Line))
          /\ access = "write" => DataBitsOf(Append(heard, Line))
      BY <2>1, <2>5, NextBit
    <3> QED BY <1>1, <2>2, <3>1, <3>2 DEF HeadBits, DataBitsOf
  <2> QED BY <2>4, <2>5
<1> QED BY <1>3, <1>4

LEMMA TickCaptured ==
  ASSUME IInv, Tick
  PROVE  Captured'
<1>1. MdioTypeOK /\ Count /\ NextState /\ Captured /\ bit \in 0 .. Done
  BY DEF IInv, Tick, MdioTypeOK
<1>2. SUFFICES ASSUME access' = "read", NEW j \in 1 .. DataBits,
                      DataFrom + j < bit' \/ (DataFrom + j = bit' /\ mdc')
               PROVE  readdata'[j] = word'[j]
  BY DEF Captured
<1>3. CASE ~ InFrame
  <2>1. access = "read" /\ bit = Done
    <3>1. bit' > 1
      BY <1>2, StateTypes, Widths
    <3> QED BY <1>1, <1>2, <1>3, <3>1, Widths DEF NextState, waitrequest, InFrame
  <2>2. readdata[j] = word[j]
    BY <1>1, <2>1, Widths DEF Captured
  <2>3. bit \notin DataFrom + 1 .. FrameEnd
    BY <2>1, Widths
  <2>4. UNCHANGED <<readdata, word>>
    BY <1>3, <2>3, OutsideFrame DEF Tick, Capture, phy
  <2> QED BY <2>2, <2>4
<1>4. CASE InFrame /\ ~ Rising
  <2>1. UNCHANGED <<readdata, word>>
    BY <1>4 DEF Tick, phy
  <2>2. access = "read" /\ (DataFrom + j < bit \/ (DataFrom + j = bit /\ mdc))
    <3>1. CASE counter = 0
      BY <1>1, <1>2, <1>4, <3>1, FrameMoves, Clocked, Widths
    <3>2. CASE counter # 0
      BY <1>1, <1>2, <1>4, <3>2, FrameMoves, Clocked
    <3> QED BY <3>1, <3>2
  <2> QED BY <1>1, <2>1, <2>2 DEF Captured
<1>5. CASE InFrame /\ Rising
  <2>1. access = "read" /\ bit' = bit /\ Capture /\ Listen
    BY <1>1, <1>2, <1>5, FrameMoves, Clocked DEF Tick
  <2>2. DataFrom + j <= bit /\ bit \in DataFrom + 1 .. FrameEnd /\ bit # HeadEnd
    BY <1>2, <1>5, <2>1, Widths DEF InFrame
  <2>3. word' = word
    BY <1>5, <2>1, <2>2, InsideFrame
  <2>4. readdata' = [readdata EXCEPT ![bit - DataFrom] = Line]
    BY <2>1, <2>2 DEF Capture
  <2>5. readdata \in [1 .. DataBits -> Bit] /\ bit - DataFrom \in 1 .. DataBits
    BY <1>1, <2>2, Widths DEF MdioTypeOK, Words
  <2>6. CASE DataFrom + j = bit
    <3>1. j = bit - DataFrom /\ Line = word[bit - DataFrom]
      BY <1>5, <2>1, <2>2, <2>6, NextBit, Widths
    <3> QED BY <2>3, <2>4, <2>5, <3>1
  <2>7. CASE DataFrom + j < bit
    <3>1. readdata[j] = word[j] /\ j # bit - DataFrom
      BY <1>1, <2>1, <2>7, Widths DEF Captured
    <3> QED BY <2>3, <2>4, <2>5, <3>1
  <2> QED BY <2>2, <2>6, <2>7, Widths
<1> QED BY <1>3, <1>4, <1>5

------------------------------------------------------------------------------
(* The invariant.                                                          *)

LEMMA InvariantStarts ==
  ASSUME MdioInit
  PROVE  IInv
<1>1. MdioTypeOK
  <2>1. counter \in 0 .. CLOCK_DIVIDER /\ bit \in 0 .. Done
    BY Half, Widths DEF MdioInit
  <2>2. heard \in Seq(Bit) /\ Len(heard) < FrameEnd
    BY Widths DEF MdioInit
  <2> QED BY <2>1, <2>2 DEF MdioInit, MdioTypeOK
<1>2. LockStep /\ Released
  BY Widths, Half DEF MdioInit, LockStep, Released, Position, InFrame, mdc
<1>3. HeadHeard /\ DataHeard /\ Captured
  BY DEF MdioInit, HeadHeard, DataHeard, Captured, InFrame
<1> QED BY <1>1, <1>2, <1>3 DEF IInv

LEMMA InvariantSteps ==
  ASSUME IInv, [MdioNext]_mdioVars
  PROVE  IInv'
<1>1. CASE Tick
  BY <1>1, TickTypes, TickLockStep, TickReleased, TickHeard, TickCaptured DEF IInv
<1>2. CASE Complete
  <2>1. MdioTypeOK' /\ UNCHANGED <<InFrame, mdc, Position>>
    BY <1>2 DEF Complete, IInv, MdioTypeOK, master, phy, InFrame, mdc, Position
  <2>2. LockStep' /\ Released'
    BY <1>2, <2>1 DEF Complete, waitrequest, IInv, LockStep, Released, master, phy
  <2>3. HeadHeard' /\ DataHeard' /\ Captured'
    BY <1>2, <2>1 DEF Complete, IInv, HeadHeard, HeadBits, DataHeard, DataBitsOf, Captured,
                      master, phy
  <2> QED BY <2>1, <2>2, <2>3 DEF IInv
<1>3. ASSUME NEW r \in Registers, NEW w \in Words, NEW kind \in {"read", "write"},
             Ask(kind, r, w)
      PROVE  IInv'
  <2>1. access = "none" /\ ~ InFrame
    BY <1>3 DEF Ask, waitrequest, IInv, LockStep, InFrame
  <2>2. MdioTypeOK' /\ UNCHANGED <<InFrame, mdc, Position>>
    BY <1>3 DEF Ask, IInv, MdioTypeOK, master, phy, InFrame, mdc, Position
  <2>3. LockStep' /\ Released'
    BY <1>3, <2>1, <2>2, Widths DEF Ask, IInv, LockStep, Released, master, phy
  <2>4. HeadHeard' /\ DataHeard' /\ Captured'
    BY <1>3, <2>1, <2>2 DEF Ask, HeadHeard, DataHeard, Captured, master
  <2> QED BY <2>2, <2>3, <2>4 DEF IInv
<1>4. ASSUME NEW r \in Registers, NEW w \in Words, PhyChanges(r, w)
      PROVE  IInv'
  <2>1. MdioTypeOK' /\ UNCHANGED <<InFrame, mdc, Position>>
    BY <1>4 DEF PhyChanges, IInv, MdioTypeOK, bus, master, InFrame, mdc, Position
  <2>2. LockStep' /\ Released'
    BY <1>4, <2>1 DEF PhyChanges, IInv, LockStep, Released, bus, master
  <2>3. HeadHeard' /\ DataHeard' /\ Captured'
    BY <1>4, <2>1 DEF PhyChanges, IInv, HeadHeard, HeadBits, DataHeard, DataBitsOf, Captured,
                      bus, master
  <2> QED BY <2>1, <2>2, <2>3 DEF IInv
<1>5. CASE UNCHANGED mdioVars
  <2>1. MdioTypeOK' /\ UNCHANGED <<InFrame, mdc, Position>>
    BY <1>5 DEF mdioVars, bus, master, phy, IInv, MdioTypeOK, InFrame, mdc, Position
  <2>2. LockStep' /\ Released'
    BY <1>5, <2>1 DEF mdioVars, bus, master, phy, IInv, LockStep, Released
  <2>3. HeadHeard' /\ DataHeard' /\ Captured'
    BY <1>5, <2>1 DEF mdioVars, bus, master, phy, IInv, HeadHeard, HeadBits, DataHeard,
                      DataBitsOf, Captured
  <2> QED BY <2>1, <2>2, <2>3 DEF IInv
<1> QED BY <1>1, <1>2, <1>3, <1>4, <1>5 DEF MdioNext

(* The PHY is level with the master in every state.                        *)
THEOREM Invariance == MdioSpec => []IInv
<1>1. MdioInit => IInv
  BY InvariantStarts
<1>2. IInv /\ [MdioNext]_mdioVars => IInv'
  BY InvariantSteps
<1> QED BY <1>1, <1>2, PTL DEF MdioSpec

(* The types of the master, the bus and the PHY; no frame is heard beyond  *)
(* its last bit.                                                           *)
THEOREM TypeCorrect == MdioSpec => []MdioTypeOK
<1>1. IInv => MdioTypeOK
  BY DEF IInv
<1> QED BY <1>1, Invariance, PTL

LEMMA Agreement == IInv => NoContention
<1>1. SUFFICES ASSUME IInv, Rising, Driving, PhyDriving
               PROVE  mdio_out = PhyOut
  BY DEF NoContention
<1>2. MdioTypeOK /\ heard \in Seq(Bit) /\ Len(heard) > HeadEnd /\ ForMe(heard, "read")
  BY <1>1 DEF PhyDriving, IInv, MdioTypeOK
<1>3. InFrame /\ access \in {"read", "write"}
  BY <1>1, <1>2, Widths DEF IInv, LockStep, Position, InFrame, MdioTypeOK
<1>4. Len(heard) = bit - 1 /\ HeadBits(heard) /\ bit \in 1 .. FrameEnd
  BY <1>1, <1>3, NextBit DEF IInv, HeadHeard, InFrame
<1>5. Len(heard) >= HeadEnd
  BY <1>2, Widths
<1>6. access = "read"
  BY <1>2, <1>3, <1>4, <1>5, HeadFields
<1>7. bit = DataFrom
  BY <1>1, <1>2, <1>4, <1>6, Widths DEF Driving
<1>8. mdio_out = 0
  BY <1>6, <1>7, Widths DEF mdio_out
<1>9. PhyOut = 0
  BY <1>4, <1>7, Widths DEF PhyOut
<1> QED BY <1>8, <1>9

(* When the line is read, the master and the PHY do not drive it both ways. *)
THEOREM LineAgreed == MdioSpec => []NoContention
  BY Agreement, Invariance, PTL

LEMMA IdleBefore ==
  ASSUME IInv, [MdioNext]_mdioVars, heard = <<>>, heard' # <<>>
  PROVE  idle
<1>1. Tick /\ Rising /\ Listen
  BY DEF MdioNext, mdioVars, Complete, Ask, PhyChanges, phy, Tick
<1>2. InFrame
  BY <1>1, OutsideFrame
<1>3. bit = 1
  <2>1. Len(heard) = 0 /\ bit \in 1 .. FrameEnd
    BY <1>2 DEF InFrame
  <2> QED BY <1>1, <1>2, <2>1, NextBit, Widths
<1>4. ~ mdc
  BY <1>1, Clocked DEF Tick, IInv
<1> QED BY <1>2, <1>3, <1>4 DEF IInv, Released

(* Between two frames the PHY has seen a released bit, however the         *)
(* requests fall against mdc.                                              *)
THEOREM FramesKeptApart == MdioSpec => FramesSeparated
<1>1. IInv /\ [MdioNext]_mdioVars => [heard = <<>> /\ heard' # <<>> => idle]_mdioVars
  BY IdleBefore
<1> QED BY <1>1, Invariance, PTL DEF MdioSpec, FramesSeparated

------------------------------------------------------------------------------
(* The refinement.                                                         *)

LEMMA Answers ==
  /\ NoAnswer \notin Words
  /\ \A w \in Words : w # NoAnswer
<1>1. ASSUME NEW w \in Words
      PROVE  w # NoAnswer
  <2>1. DOMAIN w = 1 .. DataBits /\ 1 \in 1 .. DataBits
    BY Widths DEF Words
  <2>2. DOMAIN NoAnswer = 1 .. 0 /\ 1 \notin 1 .. 0
    BY DEF NoAnswer
  <2> QED BY <2>1, <2>2
<1> QED BY <1>1

(* The clock on which the PHY reads or writes the register.                *)
Acts ==
  /\ Rising /\ InFrame
  /\ \/ access = "read" /\ bit = HeadEnd
     \/ access = "write" /\ bit = FrameEnd

LEMMA ActsOnce ==
  ASSUME IInv, Tick
  PROVE  /\ Acts => ~ Performed /\ Performed'
         /\ ~ Acts => /\ Performed' <=> Performed
                      /\ Performed => word' = word
                      /\ UNCHANGED registers
<1>1. MdioTypeOK /\ Count /\ NextState /\ bit \in 0 .. Done /\ op' = op
  BY DEF IInv, MdioTypeOK, Tick, bus
<1>2. CASE ~ InFrame
  <2>1. UNCHANGED <<word, registers>>
    BY <1>2, OutsideFrame DEF Tick, phy
  <2>2. ~ Acts
    BY <1>2 DEF Acts
  <2>3. CASE access = "none"
    <3>1. bit' = 0
      BY <1>1, <2>3 DEF NextState, waitrequest
    <3> QED BY <2>1, <2>2, <2>3, <3>1, Widths DEF Performed
  <2>4. CASE access # "none" /\ bit = 0
    <3>1. bit' \in {0, 1} /\ bit' < HeadEnd /\ bit' < FrameEnd
      BY <1>1, <2>4, Widths DEF NextState, waitrequest
    <3>2. ~ Performed /\ ~ Performed'
      BY <2>4, <3>1, Widths DEF Performed
    <3> QED BY <2>1, <2>2, <3>2
  <2>5. CASE access # "none" /\ bit = Done
    <3>1. /\ op = access => access' = access /\ bit' = bit
          /\ op # access => access' = "none"
      BY <1>1, <2>5 DEF NextState, waitrequest
    <3>2. (Performed' <=> access = op) /\ (Performed <=> access = op)
      BY <1>1, <2>5, <3>1, Widths DEF Performed
    <3> QED BY <2>1, <2>2, <3>2
  <2> QED BY <1>1, <1>2, <2>3, <2>4, <2>5, Widths DEF InFrame
<1>3. CASE InFrame
  <2>1. /\ access' = access /\ op = access /\ op' = access'
        /\ access \in {"read", "write"} /\ bit \in 1 .. FrameEnd
    BY <1>1, <1>3, FrameMoves, Widths DEF IInv, LockStep, InFrame, MdioTypeOK
  <2>2. CASE Rising
    <3>1. bit' = bit /\ ~ mdc /\ mdc' /\ Listen
      BY <1>1, <1>3, <2>2, FrameMoves, Clocked DEF Tick
    <3>2. Acts => ~ Performed /\ Performed'
      BY <2>1, <3>1, Widths DEF Acts, Performed
    <3>3. ~ Acts => (Performed' <=> Performed)
      BY <1>3, <2>1, <2>2, <3>1, Widths DEF Acts, Performed
    <3>4. ~ Acts => UNCHANGED <<word, registers>>
      BY <1>3, <2>2, <3>1, InsideFrame DEF Acts
    <3> QED BY <3>2, <3>3, <3>4
  <2>3. CASE ~ Rising
    <3>1. UNCHANGED <<word, registers>> /\ ~ Acts
      BY <2>3 DEF Tick, phy, Acts
    <3>2. CASE counter = 0
      BY <1>1, <1>3, <2>1, <3>1, <3>2, FrameMoves, Clocked, Widths DEF Performed
    <3>3. CASE counter # 0
      BY <1>1, <1>3, <2>1, <2>3, <3>1, <3>3, FrameMoves, Clocked DEF Performed
    <3> QED BY <3>2, <3>3
  <2> QED BY <2>2, <2>3
<1> QED BY <1>2, <1>3

LEMMA AccessInit ==
  ASSUME MdioInit
  PROVE  Access!Init
<1>1. ~ Performed
  BY DEF MdioInit, Performed
<1> QED BY <1>1 DEF MdioInit, Access!Init

LEMMA TickAccess ==
  ASSUME IInv, Tick
  PROVE  Access!Perform \/ UNCHANGED Access!vars
<1>1. MdioTypeOK /\ word \in Words /\ word # NoAnswer
  BY Answers DEF IInv, MdioTypeOK
<1>2. CASE Acts
  <2>1. UNCHANGED <<op, address, writedata, result>>
    BY DEF Tick, bus
  <2>2. ~ Performed /\ Performed'
    BY <1>2, ActsOnce
  <2>3. op = access /\ op # "none"
    BY <1>2, Widths DEF Acts, InFrame, IInv, LockStep
  <2>4. Listen
    BY <1>2 DEF Tick, Acts
  <2>5. CASE access = "read"
    <3>1. word' = registers[address] /\ registers' = registers
      BY <1>2, <2>4, <2>5, InsideFrame DEF Acts
    <3> QED BY <2>1, <2>2, <2>3, <2>5, <3>1 DEF Access!Perform, Access!request
  <2>6. CASE access = "write"
    <3>1. word' = writedata /\ registers' = [registers EXCEPT ![address] = writedata]
      BY <1>2, <2>4, <2>6, InsideFrame DEF Acts
    <3> QED BY <2>1, <2>2, <2>3, <2>6, <3>1 DEF Access!Perform, Access!request
  <2> QED BY <1>2, <2>5, <2>6 DEF Acts
<1>3. CASE ~ Acts
  BY <1>3, ActsOnce DEF Tick, bus, Access!vars, Access!request
<1> QED BY <1>2, <1>3

LEMMA CompleteAccess ==
  ASSUME IInv, Complete
  PROVE  /\ Performed /\ ~ Performed'
         /\ op = "read" => readdata = word
         /\ Access!End
<1>1. MdioTypeOK /\ word \in Words /\ word # NoAnswer
  BY Answers DEF IInv, MdioTypeOK
<1>2. Performed /\ ~ Performed' /\ bit = Done /\ op = access
  BY <1>1, Widths DEF Complete, waitrequest, IInv, LockStep, Performed
<1>3. op = "read" => readdata = word
  <2>1. ASSUME op = "read"
        PROVE  \A j \in 1 .. DataBits : readdata[j] = word[j]
    BY <1>2, <2>1, Widths DEF IInv, Captured
  <2>2. /\ readdata = [j \in 1 .. DataBits |-> readdata[j]]
        /\ word = [j \in 1 .. DataBits |-> word[j]]
    BY <1>1 DEF MdioTypeOK, Words
  <2> QED BY <2>1, <2>2
<1>4. Access!End
  BY <1>1, <1>2, <1>3 DEF Complete, master, phy, Access!End
<1> QED BY <1>2, <1>3, <1>4

LEMMA AskAccess ==
  ASSUME IInv, NEW kind, NEW r, NEW w, Ask(kind, r, w)
  PROVE  ~ Performed /\ ~ Performed'
<1>1. access = "none" /\ access' = access
  BY DEF Ask, waitrequest, IInv, LockStep, master
<1> QED BY <1>1 DEF Performed

LEMMA ChangeAccess ==
  ASSUME NEW r, NEW w, PhyChanges(r, w)
  PROVE  UNCHANGED <<Performed, word>>
  BY DEF PhyChanges, bus, master, Performed, mdc

LEMMA AccessStep ==
  ASSUME IInv, [MdioNext]_mdioVars
  PROVE  [Access!Next]_Access!vars
<1>1. CASE Tick
  BY <1>1, TickAccess DEF Access!Next
<1>2. CASE Complete
  BY <1>2, CompleteAccess DEF Access!Next
<1>3. ASSUME NEW r \in Registers, NEW w \in Words, NEW kind \in {"read", "write"},
             Ask(kind, r, w)
      PROVE  Access!Next
  <2>1. ~ Performed /\ ~ Performed'
    BY <1>3, AskAccess DEF Ask
  <2> QED BY <1>3, <2>1 DEF Ask, phy, Access!Next, Access!Ask
<1>4. ASSUME NEW r \in Registers, NEW w \in Words, PhyChanges(r, w)
      PROVE  Access!Next
  <2>1. UNCHANGED <<Performed, word>>
    BY <1>4, ChangeAccess DEF PhyChanges
  <2> QED BY <1>4, <2>1 DEF PhyChanges, bus, Access!Next, Access!Change, Access!request
<1>5. CASE UNCHANGED mdioVars
  <2>1. UNCHANGED <<Performed, word>>
    BY <1>5 DEF mdioVars, bus, master, phy, Performed, mdc
  <2> QED BY <1>5, <2>1 DEF mdioVars, bus, phy, Access!vars, Access!request
<1> QED BY <1>1, <1>2, <1>3, <1>4, <1>5 DEF MdioNext

(* Every access is one atomic access of the register that was asked for.   *)
THEOREM AccessesAtomic == MdioSpec => AtomicAccess
<1>1. MdioInit => Access!Init
  BY AccessInit
<1>2. IInv /\ [MdioNext]_mdioVars => [Access!Next]_Access!vars
  BY AccessStep
<1> QED BY <1>1, <1>2, Invariance, PTL DEF MdioSpec, AtomicAccess, Access!Spec
=============================================================================
