--------------------------- MODULE EthernetProofs ---------------------------
(***************************************************************************)
(* The driver uses the bus as Mdio assumes, so what is proved of Mdio      *)
(* holds below it; its buffers are kept, a damaged frame ends the          *)
(* reception, and the PHY gets its configuration, for every width and      *)
(* every set of bits.                                                      *)
(***************************************************************************)
EXTENDS Ethernet, MdioProofs

Initialising == pc \in {"init", "set", "wrote", "reset"}
Taken ==
  pc \in {"construct", "start"} \/ (pc \in {"copy", "send", "sent"} /\ back = "construct")

(* Who holds the receive buffer: the controller while it owns the          *)
(* descriptor, the frame in it until it is taken, then the program.        *)
BufferInv ==
  /\ pc \in {"set", "wrote"} => step < 3
  /\ Initialising => rx = "idle" /\ ~ damaged /\ ~ owned /\ buffer = "old"
  /\ pc = "receive" \/ Taken => rx \in {"idle", "finishing"} /\ ~ damaged
  /\ pc = "start" => owned
  /\ owned \/ Taken => buffer # "new"
  /\ ~ owned /\ ~ damaged => Initialising \/ Taken \/ buffer = "new"
  /\ pc = "receive" => ~ owned
  /\ tx = "busy" => pc = "sent"

DriverInv == IInv /\ TypeOK /\ BufferInv

------------------------------------------------------------------------------
(* The driver is a program of Mdio's bus.                                  *)

LEMMA WithBitsTypes ==
  ASSUME NEW w \in Words, NEW bits
  PROVE  WithBits(w, bits) \in Words
  BY DEF WithBits, Words, Bit

LEMMA ToSetTypes ==
  ASSUME step \in 0 .. 3, step < 3
  PROVE  ToSet[step + 1] \in {Config1, Config2, Control} /\ ToSet[step + 1] \in Registers
<1>1. step = 0 \/ step = 1 \/ step = 2
  OBVIOUS
<1> QED BY <1>1, RegisterAssumption DEF ToSet

LEMMA BusUsed ==
  ASSUME TypeOK, BufferInv, [Next]_vars
  PROVE  [MdioNext]_mdioVars
<1>1. /\ MdioTypeOK /\ step \in 0 .. 3 /\ Control \in Registers /\ Status \in Registers
      /\ result \in Words /\ writedata \in Words /\ (pc = "set" => step < 3)
  BY RegisterAssumption DEF TypeOK, MdioTypeOK, BufferInv
<1>2. ASSUME NEW kind \in {"read", "write"}, NEW r \in Registers, NEW w \in Words,
             Ask(kind, r, w)
      PROVE  MdioNext
  BY <1>2 DEF MdioNext, Ask
<1>3. CASE InitLoad
  <2>1. step < 3 /\ Ask("read", ToSet[step + 1], writedata)
    BY <1>3 DEF InitLoad, Load
  <2>3. ToSet[step + 1] \in Registers
    BY <1>1, <2>1, ToSetTypes
  <2> QED BY <1>1, <1>2, <2>1, <2>3 DEF Ask
<1>4. CASE InitStore
  <2>1. step < 3 /\ Ask("write", ToSet[step + 1], WithBits(result, SetBits[ToSet[step + 1]]))
    BY <1>1, <1>4 DEF InitStore, Store, Waited
  <2>2. WithBits(result, SetBits[ToSet[step + 1]]) \in Words
    BY <1>1, WithBitsTypes
  <2>3. ToSet[step + 1] \in Registers
    BY <1>1, <2>1, ToSetTypes
  <2> QED BY <1>2, <2>1, <2>2, <2>3 DEF Ask
<1>5. CASE ResetLoad
  BY <1>1, <1>2, <1>5 DEF ResetLoad, Load, Ask
<1>6. CASE LoopLoad
  BY <1>1, <1>2, <1>6 DEF LoopLoad, Load, Ask
<1>7. CASE PhyReset
  <2>1. [registers[Control] EXCEPT ![ResetBit] = 0] \in Words
    BY <1>1 DEF MdioTypeOK, Words, Bit
  <2> QED BY <1>1, <1>7, <2>1 DEF PhyReset, MdioNext, PhyChanges
<1>8. CASE PhyLink
  <2>1. [registers[Status] EXCEPT ![LinkBit] = 1 - @] \in Words
    <3>1. registers[Status] \in [1 .. DataBits -> {0, 1}] /\ LinkBit \in 1 .. DataBits
      BY <1>1, RegisterAssumption DEF MdioTypeOK, Words, Bit
    <3>2. registers[Status][LinkBit] = 0 \/ registers[Status][LinkBit] = 1
      BY <3>1
    <3>3. 1 - registers[Status][LinkBit] \in {0, 1}
      BY <3>2
    <3> QED BY <3>1, <3>3 DEF Words, Bit
  <2> QED BY <1>1, <1>8, <2>1 DEF PhyLink, MdioNext, PhyChanges
<1>9. CASE Clock \/ Answer
  BY <1>9 DEF Clock, Answer, MdioNext
<1>10. CASE \/ InitNext \/ ResetCheck \/ Construct \/ Start \/ Link \/ CheckStatus
            \/ Input \/ NoPbuf \/ Timeouts \/ Copy \/ Send \/ Sent
            \/ RxBegin \/ RxEnd \/ RxIdle \/ TxIdle \/ UNCHANGED vars
  BY <1>10 DEF InitNext, ResetCheck, Construct, Start, Link, CheckStatus, Input, NoPbuf,
       Timeouts, Copy, Send, Sent, RxBegin, RxEnd, RxIdle, TxIdle, vars
<1> QED
  BY <1>3, <1>4, <1>5, <1>6, <1>7, <1>8, <1>9, <1>10 DEF Next, Program, Hardware

LEMMA InitialBus ==
  ASSUME Init
  PROVE  MdioInit
<1>1. Zero(DataBits) \in Words /\ Zero(RegBits) \in Registers
  BY DEF Zero, Words, Registers, Bit
<1> QED BY <1>1, RegisterAssumption DEF Init, MdioInit

------------------------------------------------------------------------------
(* The invariant, step by step.                                            *)

LEMMA DriverStarts ==
  ASSUME Init
  PROVE  DriverInv
<1>1. IInv /\ MdioTypeOK
  BY InitialBus, InvariantStarts DEF IInv
<1>2. applied \in [{Config1, Config2} -> Words]
  BY RegisterAssumption DEF Init
<1>3. linkUp \in BOOLEAN /\ owned \in BOOLEAN /\ damaged \in BOOLEAN
  BY DEF Init
<1>4. TypeOK
  BY <1>1, <1>2, <1>3 DEF Init, TypeOK, Labels
<1>5. BufferInv
  BY DEF Init, BufferInv, Initialising, Taken
<1> QED BY <1>1, <1>4, <1>5 DEF DriverInv

LEMMA Busses ==
  ASSUME DriverInv, [Next]_vars
  PROVE  IInv' /\ MdioTypeOK'
  BY BusUsed, InvariantSteps DEF DriverInv, IInv

(* The program.                                                            *)
LEMMA ProgramSteps ==
  ASSUME DriverInv, Program, IInv', MdioTypeOK'
  PROVE  DriverInv'
<1>1. TypeOK /\ BufferInv
  BY DEF DriverInv
<1>2. CASE InitLoad \/ InitStore \/ InitNext \/ ResetLoad \/ ResetCheck
  <2>1. TypeOK'
    BY <1>1, <1>2 DEF InitLoad, InitStore, InitNext, ResetLoad, ResetCheck, Goto, TypeOK,
       Labels, Waited, receiver, sender, BufferInv
  <2>2. BufferInv'
    BY <1>1, <1>2 DEF InitLoad, InitStore, InitNext, ResetLoad, ResetCheck, Goto, TypeOK,
       Waited, receiver, sender, BufferInv, Initialising, Taken
  <2> QED BY <2>1, <2>2 DEF DriverInv
<1>3. CASE Construct \/ Start
  <2>1. linkUp' \in BOOLEAN /\ owned' \in BOOLEAN /\ damaged' \in BOOLEAN
    BY <1>1, <1>3 DEF Construct, Start, TypeOK
  <2>2. TypeOK'
    BY <1>1, <1>3, <2>1 DEF Construct, Start, Goto, TypeOK, Labels, sender, BufferInv, Taken
  <2>3. BufferInv'
    BY <1>1, <1>3 DEF Construct, Start, Goto, sender, BufferInv, Initialising, Taken, TypeOK
  <2> QED BY <2>2, <2>3 DEF DriverInv
<1>4. CASE LoopLoad \/ Link \/ CheckStatus
  <2>1. linkUp' \in BOOLEAN /\ owned' \in BOOLEAN /\ damaged' \in BOOLEAN
    BY <1>1, <1>4 DEF LoopLoad, Link, CheckStatus, TypeOK, receiver
  <2>2. TypeOK'
    BY <1>1, <1>4, <2>1 DEF LoopLoad, Link, CheckStatus, Goto, TypeOK, Labels, Waited,
       receiver, sender
  <2>3. BufferInv'
    BY <1>1, <1>4 DEF LoopLoad, Link, CheckStatus, Goto, Waited, receiver, sender,
       BufferInv, Initialising, Taken, TypeOK
  <2> QED BY <2>2, <2>3 DEF DriverInv
<1>5. CASE Input \/ NoPbuf \/ Timeouts
  <2>1. TypeOK'
    BY <1>1, <1>5 DEF Input, Take, NoPbuf, Timeouts, Goto, TypeOK, Labels, receiver, sender
  <2>2. BufferInv'
    BY <1>1, <1>5 DEF Input, Take, NoPbuf, Timeouts, Goto, receiver, sender, BufferInv,
       Initialising, Taken, TypeOK
  <2> QED BY <2>1, <2>2 DEF DriverInv
<1>6. CASE Copy \/ Send \/ Sent
  <2>1. TypeOK'
    BY <1>1, <1>6 DEF Copy, Send, Sent, Goto, TypeOK, Labels, receiver, sender
  <2>2. BufferInv'
    BY <1>1, <1>6 DEF Copy, Send, Sent, Goto, receiver, sender, BufferInv, Initialising,
       Taken, TypeOK
  <2> QED BY <2>1, <2>2 DEF DriverInv
<1> QED BY <1>2, <1>3, <1>4, <1>5, <1>6 DEF Program

(* The hardware below it.                                                  *)
LEMMA HardwareSteps ==
  ASSUME DriverInv, Hardware \/ Clock \/ Answer \/ UNCHANGED vars, IInv', MdioTypeOK'
  PROVE  DriverInv'
<1>1. TypeOK /\ BufferInv
  BY DEF DriverInv
<1>2. CASE RxBegin \/ RxEnd \/ RxIdle
  <2>1. linkUp' \in BOOLEAN /\ owned' \in BOOLEAN /\ damaged' \in BOOLEAN
    BY <1>1, <1>2 DEF RxBegin, RxEnd, RxIdle, driver, TypeOK
  <2>2. TypeOK'
    BY <1>1, <1>2, <2>1 DEF RxBegin, RxEnd, RxIdle, driver, sender, TypeOK
  <2>3. BufferInv'
    BY <1>1, <1>2 DEF RxBegin, RxEnd, RxIdle, driver, sender, TypeOK, BufferInv,
       Initialising, Taken
  <2> QED BY <2>2, <2>3 DEF DriverInv
<1>3. CASE TxIdle
  <2>1. TypeOK'
    BY <1>1, <1>3 DEF TxIdle, driver, receiver, TypeOK
  <2>2. BufferInv'
    BY <1>1, <1>3 DEF TxIdle, driver, receiver, BufferInv, Initialising, Taken
  <2> QED BY <2>1, <2>2 DEF DriverInv
<1>4. CASE PhyReset
  <2>1. applied' \in [{Config1, Config2} -> Words]
    BY <1>1, <1>4, RegisterAssumption DEF PhyReset, TypeOK, MdioTypeOK
  <2>2. TypeOK'
    BY <1>1, <1>4, <2>1 DEF PhyReset, driver, receiver, sender, TypeOK
  <2>3. BufferInv'
    BY <1>1, <1>4 DEF PhyReset, driver, receiver, sender, BufferInv, Initialising, Taken
  <2> QED BY <2>2, <2>3 DEF DriverInv
<1>5. CASE PhyLink \/ Clock \/ Answer \/ UNCHANGED vars
  <2>1. UNCHANGED <<driver, receiver, sender, applied>>
    BY <1>5 DEF PhyLink, Clock, Answer, vars
  <2>2. TypeOK'
    BY <1>1, <2>1 DEF driver, receiver, sender, TypeOK
  <2>3. BufferInv'
    BY <1>1, <2>1 DEF driver, receiver, sender, BufferInv, Initialising, Taken
  <2> QED BY <2>2, <2>3 DEF DriverInv
<1> QED BY <1>2, <1>3, <1>4, <1>5 DEF Hardware

THEOREM DriverInvariance == Spec => []DriverInv
<1>1. Init => DriverInv
  BY DriverStarts
<1>2. DriverInv /\ [Next]_vars => DriverInv'
  BY Busses, ProgramSteps, HardwareSteps DEF Next
<1> QED BY <1>1, <1>2, PTL DEF Spec

(* Every variable keeps its type, and the receiving controller works only  *)
(* on a descriptor it owns.                                                *)
THEOREM DriverTypes == Spec => []TypeOK
<1>1. DriverInv => TypeOK
  BY DEF DriverInv
<1> QED BY <1>1, DriverInvariance, PTL

(* The driver is one of the programs Mdio is proved for.                   *)
THEOREM DriverUsesBus == Spec => MdioSpec
<1>1. Init => MdioInit
  BY InitialBus
<1>2. DriverInv /\ [Next]_vars => [MdioNext]_mdioVars
  BY BusUsed DEF DriverInv
<1> QED BY <1>1, <1>2, DriverInvariance, PTL DEF Spec, MdioSpec

(* So every load and store of the driver is one atomic access, the frames  *)
(* on the line are kept apart, and nobody fights for the line.             *)
THEOREM DriverAccesses == Spec => AtomicAccess /\ FramesSeparated /\ []NoContention
  BY DriverUsesBus, AccessesAtomic, FramesKeptApart, LineAgreed, PTL

(* After a damaged frame nothing is received again.                        *)
THEOREM DamageEndsReception == Spec => DamageIsFinal
<1>1. ASSUME DriverInv, [Next]_vars, damaged
      PROVE  damaged' /\ rx' \notin {"waiting", "writing"}
  <2>1. TypeOK /\ BufferInv /\ rx \notin {"waiting", "writing"}
    BY <1>1 DEF DriverInv, TypeOK
  <2>2. CASE Construct \/ Start \/ RxBegin \/ RxEnd \/ RxIdle
    BY <1>1, <2>1, <2>2 DEF Construct, Start, RxBegin, RxEnd, RxIdle, BufferInv, Taken
  <2>3. CASE ~ (Construct \/ Start \/ RxBegin \/ RxEnd \/ RxIdle)
    <3>1. UNCHANGED <<damaged, rx>>
      BY <1>1, <2>3 DEF Next, Program, Hardware, vars, InitLoad, InitStore, InitNext,
         ResetLoad, ResetCheck, LoopLoad, Link, CheckStatus, Input, NoPbuf, Timeouts, Copy,
         Send, Sent, TxIdle, PhyReset, PhyLink, Clock, Answer, receiver
    <3> QED BY <1>1, <2>1, <3>1
  <2> QED BY <2>2, <2>3
<1>2. DriverInv /\ [Next]_vars =>
        [damaged => damaged' /\ rx' \notin {"waiting", "writing"}]_vars
  BY <1>1
<1> QED BY <1>2, DriverInvariance, PTL DEF Spec, DamageIsFinal

(* No frame is overwritten before it is taken or dropped, the stack gets   *)
(* each whole frame once, and no frame to send is overwritten early.       *)
THEOREM FramesKept == Spec => BuffersKept
<1> DEFINE Kept ==
      /\ p' # p => p' \in {"none", "new"}
      /\ buffer = "new" => buffer' \in {"new", "old"}
      /\ pc = "copy" /\ pc' = "send" => tx = "idle"
<1>1. ASSUME DriverInv, [Next]_vars
      PROVE  Kept
  <2>1. TypeOK /\ BufferInv
    BY <1>1 DEF DriverInv
  <2>2. CASE Input \/ NoPbuf
    BY <2>1, <2>2 DEF Input, Take, NoPbuf, Goto, BufferInv, Initialising, Taken
  <2>3. CASE Start \/ Copy
    BY <2>1, <2>3 DEF Start, Copy, Goto, receiver, BufferInv, TypeOK
  <2>4. CASE RxBegin \/ RxEnd
    BY <2>1, <2>4 DEF RxBegin, RxEnd, driver, BufferInv, TypeOK
  <2>5. CASE ~ (Input \/ NoPbuf \/ Start \/ Copy \/ RxBegin \/ RxEnd)
    <3>1. UNCHANGED <<p, buffer>> /\ ~ (pc = "copy" /\ pc' = "send")
      BY <1>1, <2>5 DEF Next, Program, Hardware, vars, InitLoad, InitStore, InitNext,
         ResetLoad, ResetCheck, Construct, LoopLoad, Link, CheckStatus, Timeouts, Send,
         Sent, RxIdle, TxIdle, PhyReset, PhyLink, Clock, Answer, receiver, driver, Goto,
         Waited
    <3> QED BY <3>1
  <2> QED BY <2>2, <2>3, <2>4, <2>5
<1>2. DriverInv /\ [Next]_vars => [Kept]_vars
  BY <1>1
<1> QED BY <1>2, DriverInvariance, PTL DEF Spec, BuffersKept

------------------------------------------------------------------------------
(* The configuration.  Which accesses the driver makes, and where:         *)

BusInv ==
  /\ op # "none" => pc \in {"set", "wrote", "reset", "link"}
  /\ op = "write" => pc = "wrote"
  /\ op = "read" => pc # "wrote"
  /\ op # "none" /\ pc \in {"set", "wrote"} => address = ToSet[step + 1]
  /\ op # "none" /\ pc = "reset" => address = Control

(* what the registers hold meanwhile:                                      *)
Wanted(r) == WithBits(PowerUp[r], SetBits[r])
Asked == [r \in {Config1, Config2} |-> Wanted(r)]

Written(n) == step > n \/ (step = n /\ pc = "wrote" /\ (op = "none" \/ Performed))

RegistersInv ==
  /\ registers[Config1] = IF Written(0) THEN Wanted(Config1) ELSE PowerUp[Config1]
  /\ registers[Config2] = IF Written(1) THEN Wanted(Config2) ELSE PowerUp[Config2]
  /\ Written(2) => registers[Control][ResetBit] = 1 \/ applied = Asked

(* and what the program has read of them or is about to write.             *)
ReadInv ==
  /\ pc = "set" /\ step < 2 /\ Performed => word = PowerUp[ToSet[step + 1]]
  /\ pc = "set" /\ step < 2 /\ op = "none" => result = PowerUp[ToSet[step + 1]]
  /\ pc = "wrote" /\ step < 2 => writedata = Wanted(ToSet[step + 1])
  /\ pc = "wrote" /\ step = 2 => writedata[ResetBit] = 1
  /\ pc = "reset" /\ Performed /\ word[ResetBit] # 1 => applied = Asked
  /\ pc = "reset" /\ op = "none" /\ result[ResetBit] # 1 => applied = Asked
  /\ pc \notin {"init", "set", "wrote"} => step = 3
  /\ ~ Initialising => applied = Asked

ConfigInv == BusInv /\ RegistersInv /\ ReadInv

LEMMA ConfigStarts ==
  ASSUME Init
  PROVE  ConfigInv
<1>1. ~ Performed
  BY DEF Init, MdioInit, Performed
<1>2. BusInv /\ RegistersInv
  BY <1>1 DEF Init, MdioInit, BusInv, RegistersInv, Written
<1>3. ReadInv
  BY DEF Init, ReadInv, Initialising
<1> QED BY <1>2, <1>3 DEF ConfigInv

LEMMA ToSetIs == ToSet[1] = Config1 /\ ToSet[2] = Config2 /\ ToSet[3] = Control
  BY DEF ToSet

LEMMA StepIs ==
  ASSUME DriverInv
  PROVE  step \in 0 .. 3 /\ pc \in Labels /\ (Performed => op # "none")
  BY DEF DriverInv, TypeOK, Performed

(* The program's own steps, which leave the bus alone.                     *)
LEMMA ConfigQuiet ==
  ASSUME DriverInv, ConfigInv, UNCHANGED <<mdioVars, applied>>,
         \/ pc' = pc /\ step' = step
         \/ InitNext \/ ResetCheck
         \/ ~ Initialising /\ ~ Initialising' /\ step' = step /\ (pc = "link" => op = "none")
  PROVE  ConfigInv'
<1>1. step \in 0 .. 3 /\ (Performed => op # "none")
  BY StepIs
<1>2. UNCHANGED <<op, address, writedata, result, word, registers, Performed, applied>>
  BY DEF mdioVars, bus, master, phy, Performed, mdc
<1>3. BusInv /\ RegistersInv /\ ReadInv
  BY DEF ConfigInv
<1>4. UNCHANGED Asked
  BY DEF Asked, Wanted
<1>5. CASE pc' = pc /\ step' = step
  BY <1>2, <1>3, <1>4, <1>5 DEF ConfigInv, BusInv, RegistersInv, ReadInv, Written, Initialising
<1>6. CASE InitNext
  BY <1>1, <1>2, <1>3, <1>4, <1>6
  DEF InitNext, Waited, Goto, ConfigInv, BusInv, RegistersInv, ReadInv, Written, Initialising
<1>7. CASE ResetCheck
  BY <1>1, <1>2, <1>3, <1>4, <1>7
  DEF ResetCheck, Waited, Goto, ConfigInv, BusInv, RegistersInv, ReadInv, Written, Initialising
<1>8. CASE /\ ~ Initialising /\ ~ Initialising' /\ step' = step
           /\ pc = "link" => op = "none"
  BY <1>1, <1>2, <1>3, <1>4, <1>8
  DEF ConfigInv, BusInv, RegistersInv, ReadInv, Written, Initialising
<1> QED BY <1>5, <1>6, <1>7, <1>8

(* Its loads and stores.                                                   *)
LEMMA ConfigAsks ==
  ASSUME DriverInv, ConfigInv, InitLoad \/ InitStore \/ ResetLoad \/ LoopLoad
  PROVE  ConfigInv'
<1>1. step \in 0 .. 3
  BY StepIs
<1>2. PICK kind, r, w : Ask(kind, r, w)
  BY DEF InitLoad, InitStore, ResetLoad, LoopLoad, Load, Store, Ask
<1>3. ~ Performed /\ ~ Performed' /\ op = "none"
      /\ UNCHANGED <<result, word, registers, step, applied>>
  BY <1>2, AskAccess DEF Ask, DriverInv, phy, InitLoad, InitStore, ResetLoad, LoopLoad
<1>4. BusInv /\ RegistersInv /\ ReadInv /\ UNCHANGED Asked
  BY DEF ConfigInv, Asked, Wanted
<1>5. CASE InitLoad
  BY <1>1, <1>3, <1>4, <1>5
  DEF InitLoad, Load, Ask, Goto, ConfigInv, BusInv, RegistersInv, ReadInv, Written, Initialising
<1>6. CASE InitStore
  <2>1. op' = "write" /\ address' = ToSet[step + 1] /\ pc = "set" /\ pc' = "wrote"
        /\ writedata' = WithBits(result, SetBits[ToSet[step + 1]])
    BY <1>6 DEF InitStore, Store, Ask, Waited, Goto
  <2>2. step < 2 => writedata' = Wanted(ToSet[step + 1])
    BY <1>3, <1>4, <2>1 DEF ReadInv, Wanted
  <2>3. step = 2 => writedata'[ResetBit] = 1
    BY <2>1, ToSetIs, RegisterAssumption DEF WithBits
  <2>4. Wanted(ToSet[step + 1])' = Wanted(ToSet[step + 1])
    BY <1>3 DEF Wanted
  <2> QED BY <1>1, <1>3, <1>4, <2>1, <2>2, <2>3, <2>4
          DEF ConfigInv, BusInv, RegistersInv, ReadInv, Written, Initialising
<1>7. CASE ResetLoad
  BY <1>1, <1>3, <1>4, <1>7
  DEF ResetLoad, Load, Ask, Goto, ConfigInv, BusInv, RegistersInv, ReadInv, Written, Initialising
<1>8. CASE LoopLoad
  BY <1>1, <1>3, <1>4, <1>8
  DEF LoopLoad, Load, Ask, Goto, ConfigInv, BusInv, RegistersInv, ReadInv, Written, Initialising
<1> QED BY <1>5, <1>6, <1>7, <1>8

(* A clock of the master: nothing, or the access acts.                     *)
LEMMA ConfigClock ==
  ASSUME DriverInv, ConfigInv, Clock
  PROVE  ConfigInv'
<1>1. step \in 0 .. 3 /\ (Performed => op # "none")
  BY StepIs
<1>2. UNCHANGED <<op, address, writedata, result, pc, step, applied>>
  BY DEF Clock, Tick, bus, driver
<1>3. BusInv /\ RegistersInv /\ ReadInv /\ UNCHANGED Asked
  BY DEF ConfigInv, Asked, Wanted
<1>4. /\ registers \in [Registers -> Words] /\ address \in Registers /\ writedata \in Words
      /\ word \in Words /\ word # NoAnswer
  BY Answers DEF DriverInv, TypeOK, MdioTypeOK
<1>5. CASE UNCHANGED Access!vars
  <2>1. (Performed' <=> Performed) /\ (Performed => word' = word) /\ registers' = registers
    <3>1. word' # NoAnswer
      BY Busses, Answers DEF Next, DriverInv, MdioTypeOK
    <3> QED BY <1>4, <1>5, <3>1 DEF Access!vars
  <2> QED BY <1>2, <1>3, <2>1
          DEF ConfigInv, BusInv, RegistersInv, ReadInv, Written, Initialising
<1>6. CASE Access!Perform
  <2>1. ~ Performed /\ op # "none"
    BY <1>4, <1>6 DEF Access!Perform
  <2>2. CASE op = "read"
    <3>1. registers' = registers /\ registers[address] # NoAnswer
      BY <1>4, <1>6, <2>2, Answers DEF Access!Perform
    <3>2. Performed' /\ word' = registers[address]
      BY <1>6, <2>2, <3>1 DEF Access!Perform
    <3>3. pc = "set" /\ step < 2 => word' = PowerUp[ToSet[step + 1]]
      BY <1>1, <1>3, <2>1, <2>2, <3>2, ToSetIs DEF BusInv, RegistersInv, Written
    <3>4. pc = "reset" /\ word'[ResetBit] # 1 => applied = Asked
      BY <1>1, <1>3, <2>1, <2>2, <3>2 DEF BusInv, RegistersInv, ReadInv, Written
    <3> QED BY <1>2, <1>3, <2>1, <2>2, <3>1, <3>3, <3>4
            DEF ConfigInv, BusInv, RegistersInv, ReadInv, Written, Initialising
  <2>3. CASE op = "write"
    <3>1. registers' = [registers EXCEPT ![address] = writedata] /\ writedata # NoAnswer
      BY <1>4, <1>6, <2>3, Answers DEF Access!Perform
    <3>2. Performed' /\ pc = "wrote" /\ address = ToSet[step + 1] /\ step < 3
      BY <1>3, <1>6, <2>3, <3>1 DEF Access!Perform, BusInv, DriverInv, BufferInv
    <3>3. step = 0 \/ step = 1 \/ step = 2
      BY <1>1, <3>2
    <3>4. RegistersInv'
      <4>1. CASE step = 0
        <5>1. /\ address = Config1 /\ writedata = Wanted(Config1)
              /\ registers[Config2] = PowerUp[Config2]
          BY <1>3, <2>1, <3>2, <4>1, ToSetIs DEF RegistersInv, ReadInv, Written
        <5>2. registers'[Config1] = Wanted(Config1) /\ registers'[Config2] = PowerUp[Config2]
          BY <1>4, <3>1, <5>1, RegisterAssumption
        <5> QED BY <1>2, <3>2, <4>1, <5>2 DEF RegistersInv, Written, Wanted
      <4>2. CASE step = 1
        <5>1. /\ address = Config2 /\ writedata = Wanted(Config2)
              /\ registers[Config1] = Wanted(Config1)
          BY <1>3, <2>1, <3>2, <4>2, ToSetIs DEF RegistersInv, ReadInv, Written
        <5>2. registers'[Config1] = Wanted(Config1) /\ registers'[Config2] = Wanted(Config2)
          BY <1>4, <3>1, <5>1, RegisterAssumption
        <5> QED BY <1>2, <3>2, <4>2, <5>2 DEF RegistersInv, Written, Wanted
      <4>3. CASE step = 2
        <5>1. /\ address = Control /\ writedata[ResetBit] = 1
              /\ registers[Config1] = Wanted(Config1) /\ registers[Config2] = Wanted(Config2)
          BY <1>3, <3>2, <4>3, ToSetIs DEF RegistersInv, ReadInv, Written
        <5>2. /\ registers'[Config1] = Wanted(Config1) /\ registers'[Config2] = Wanted(Config2)
              /\ registers'[Control][ResetBit] = 1
          BY <1>4, <3>1, <5>1, RegisterAssumption
        <5> QED BY <1>2, <3>2, <4>3, <5>2 DEF RegistersInv, Written, Wanted
      <4> QED BY <3>3, <4>1, <4>2, <4>3
    <3> QED BY <1>2, <1>3, <2>1, <3>2, <3>4 DEF ConfigInv, BusInv, ReadInv, Initialising
  <2> QED BY <1>6, <2>2, <2>3 DEF Access!Perform
<1> QED BY <1>5, <1>6, TickAccess DEF Clock, DriverInv

(* The end of an access.                                                   *)
LEMMA ConfigAnswer ==
  ASSUME DriverInv, ConfigInv, Answer
  PROVE  ConfigInv'
<1>1. BusInv /\ RegistersInv /\ ReadInv /\ UNCHANGED Asked /\ step \in 0 .. 3
  BY StepIs DEF ConfigInv, Asked, Wanted
<1>2. Performed /\ ~ Performed' /\ (op = "read" => readdata = word)
  BY CompleteAccess DEF Answer, DriverInv
<1>3. /\ op' = "none" /\ op # "none" /\ result' = (IF op = "read" THEN word ELSE result)
      /\ UNCHANGED <<address, writedata, registers, word, pc, step, applied>>
  BY <1>2 DEF Answer, Complete, phy, driver
<1>4. BusInv' /\ RegistersInv'
  BY <1>1, <1>2, <1>3 DEF BusInv, RegistersInv, Written
<1>5. ReadInv'
  <2>1. op = "read" \/ (op = "write" /\ pc = "wrote")
    BY <1>1, <1>3 DEF BusInv, DriverInv, TypeOK, MdioTypeOK
  <2> QED BY <1>1, <1>2, <1>3, <2>1 DEF ReadInv, Initialising
<1> QED BY <1>4, <1>5 DEF ConfigInv

(* The PHY's own changes.                                                  *)
LEMMA ConfigPhy ==
  ASSUME DriverInv, ConfigInv, PhyReset \/ PhyLink
  PROVE  ConfigInv'
<1>1. BusInv /\ RegistersInv /\ ReadInv /\ UNCHANGED Asked /\ step \in 0 .. 3
  BY StepIs DEF ConfigInv, Asked, Wanted
<1>2. registers \in [Registers -> Words]
  BY DEF DriverInv, TypeOK, MdioTypeOK
<1>3. UNCHANGED <<op, address, writedata, result, word, pc, step, Performed>>
  BY ChangeAccess DEF PhyReset, PhyLink, PhyChanges, driver, bus, master, Performed, mdc
<1>4. CASE PhyReset
  <2>1. registers'[Config1] = registers[Config1] /\ registers'[Config2] = registers[Config2]
    BY <1>2, <1>4, RegisterAssumption DEF PhyReset, PhyChanges
  <2>2. Written(1) => applied' = Asked
    BY <1>1, <1>4, RegisterAssumption DEF PhyReset, RegistersInv, Written, Asked
  <2>3. BusInv' /\ RegistersInv'
    BY <1>1, <1>3, <2>1, <2>2 DEF BusInv, RegistersInv, Written
  <2>4. ReadInv'
    BY <1>1, <1>3, <2>2 DEF ReadInv, Written, Initialising
  <2> QED BY <2>3, <2>4 DEF ConfigInv
<1>5. CASE PhyLink
  <2>1. \A r \in {Config1, Config2, Control} : registers'[r] = registers[r]
    BY <1>2, <1>5, RegisterAssumption DEF PhyLink, PhyChanges
  <2>2. applied' = applied
    BY <1>5 DEF PhyLink
  <2> QED BY <1>1, <1>3, <2>1, <2>2
          DEF ConfigInv, BusInv, RegistersInv, ReadInv, Written, Initialising
<1> QED BY <1>4, <1>5

LEMMA ConfigSteps ==
  ASSUME DriverInv, ConfigInv, [Next]_vars
  PROVE  ConfigInv'
<1>1. CASE InitLoad \/ InitStore \/ ResetLoad \/ LoopLoad
  BY <1>1, ConfigAsks
<1>2. CASE Clock
  BY <1>2, ConfigClock
<1>3. CASE Answer
  BY <1>3, ConfigAnswer
<1>4. CASE PhyReset \/ PhyLink
  BY <1>4, ConfigPhy
<1>5. CASE InitNext \/ ResetCheck
  <2>1. UNCHANGED <<mdioVars, applied>>
    BY <1>5 DEF InitNext, ResetCheck
  <2> QED BY <1>5, <2>1, ConfigQuiet
<1>6. CASE \/ Construct \/ Start \/ Link \/ CheckStatus \/ Input \/ NoPbuf
           \/ Timeouts \/ Copy \/ Send \/ Sent
  <2>1. UNCHANGED <<mdioVars, applied>>
    BY <1>6 DEF Construct, Start, Link, CheckStatus, Input, NoPbuf, Timeouts, Copy, Send, Sent
  <2>2. back \in {"check", "construct", "loop"}
    BY DEF DriverInv, TypeOK
  <2>3. /\ ~ Initialising /\ ~ Initialising' /\ step' = step
        /\ pc = "link" => op = "none"
    BY <1>6, <2>2 DEF Construct, Start, Link, CheckStatus, Input, NoPbuf, Timeouts, Copy, Send,
       Sent, Goto, Initialising, Waited
  <2> QED BY <2>1, <2>3, ConfigQuiet
<1>7. CASE RxBegin \/ RxEnd \/ RxIdle \/ TxIdle \/ UNCHANGED vars
  <2>1. UNCHANGED <<mdioVars, applied>> /\ pc' = pc /\ step' = step
    BY <1>7 DEF RxBegin, RxEnd, RxIdle, TxIdle, vars, driver
  <2> QED BY <2>1, ConfigQuiet
<1> QED BY <1>1, <1>2, <1>3, <1>4, <1>5, <1>6, <1>7 DEF Next, Program, Hardware

THEOREM ConfigInvariance == Spec => [](DriverInv /\ ConfigInv)
<1>1. Init => DriverInv /\ ConfigInv
  BY DriverStarts, ConfigStarts
<1>2. (DriverInv /\ ConfigInv) /\ [Next]_vars => (DriverInv /\ ConfigInv)'
  BY Busses, ProgramSteps, HardwareSteps, ConfigSteps DEF Next
<1> QED BY <1>1, <1>2, PTL DEF Spec

(* eth_loop starts on a PHY that works with the configuration asked for,   *)
(* whatever the registers, their bits and the time the reset takes.        *)
THEOREM DriverConfigures == Spec => []Configured
<1>1. ConfigInv => Configured
  BY DEF ConfigInv, ReadInv, Initialising, Configured, Asked, Wanted
<1> QED BY <1>1, ConfigInvariance, PTL

------------------------------------------------------------------------------
(* The driver goes on.  Weak fairness of an action says that the action    *)
(* happens again and again unless it is disabled again and again; here the *)
(* states in which it is enabled are written out, so FairSpec implies each *)
(* conjunct but the third, which is about the bus: no access goes on for   *)
(* ever.  It takes a bounded number of clocks, and TLC counts them.        *)

ProgramDue ==
  \/ pc \in {"construct", "start", "check", "receive", "timeouts", "copy"}
  \/ pc \in {"wrote", "reset", "link"} /\ op = "none"
  \/ pc \in {"init", "set", "loop"} /\ op = "none" /\ waitrequest
  \/ pc \in {"send", "sent"} /\ tx = "idle"

Finishing == rx = "finishing"
Resetting == registers[Control][ResetBit] = 1
BusFree == op = "none"
Sends == tx = "busy"

Running ==
  /\ []<>(~ ProgramDue) \/ []<><<Program>>_vars
  /\ []<><<Clock>>_vars
  /\ []<>BusFree
  /\ []<>(~ Sends) \/ []<><<TxIdle>>_vars
  /\ []<>(~ Finishing) \/ []<><<RxIdle>>_vars
  /\ []<>(~ Resetting) \/ []<><<PhyReset>>_vars

(* What the program waits for                                              *)
Asking  == pc \in {"init", "set", "loop"}
Waiting == pc \in {"wrote", "reset", "link"}
Sending == pc \in {"send", "sent"}

LEMMA OthersKeepPlace ==
  ASSUME DriverInv, ConfigInv, [Next]_vars, ~ <<Program>>_vars
  PROVE  UNCHANGED <<pc, step, back, linkUp>>
<1>1. ASSUME Program PROVE vars' # vars
  <2>1. back \in {"check", "construct", "loop"}
    BY DEF DriverInv, TypeOK
  <2>2. pc' # pc
    BY <1>1, <2>1 DEF Program, InitLoad, InitStore, InitNext, ResetLoad, ResetCheck, Construct,
       Start, LoopLoad, Link, CheckStatus, Input, NoPbuf, Timeouts, Copy, Send, Sent, Goto,
       Waited
  <2> QED BY <2>2 DEF vars, driver
<1> QED BY <1>1 DEF Next, Hardware, RxBegin, RxEnd, RxIdle, TxIdle, PhyReset, PhyLink, Clock,
     Answer, vars, driver, sender

LEMMA DueStays ==
  ASSUME DriverInv, ConfigInv, [Next]_vars, ~ <<Program>>_vars
  PROVE  (ProgramDue => ProgramDue') /\ (BusFree => BusFree')
<1>1. UNCHANGED pc
  BY OthersKeepPlace
<1>2. tx = "idle" => tx' = "idle"
  BY DEF Next, Hardware, RxBegin, RxEnd, RxIdle, TxIdle, PhyReset, PhyLink, Clock, Answer,
     vars, sender
<1>3. op = "none" => op' = "none"
  BY DEF Next, Hardware, RxBegin, RxEnd, RxIdle, TxIdle, PhyReset, PhyLink, PhyChanges, Clock,
     Tick, Answer, Complete, vars, mdioVars, bus
<1>4. op = "none" /\ waitrequest => waitrequest'
  <2>1. CASE Clock
    BY <2>1, Widths DEF Clock, Tick, NextState, waitrequest, DriverInv, IInv, LockStep
  <2>2. CASE ~ Clock
    BY <2>2 DEF Next, Hardware, RxBegin, RxEnd, RxIdle, TxIdle, PhyReset, PhyLink, PhyChanges,
       Answer, Complete, vars, mdioVars, master, waitrequest
  <2> QED BY <2>1, <2>2
<1> QED BY <1>1, <1>2, <1>3, <1>4 DEF ProgramDue, BusFree

LEMMA ClockFrees ==
  ASSUME DriverInv, Asking, BusFree, Clock
  PROVE  ProgramDue'
<1>1. op' = "none" /\ pc' = pc /\ access' = "none"
  BY Widths DEF BusFree, Clock, Tick, NextState, waitrequest, DriverInv, IInv, LockStep, bus,
     driver
<1> QED BY <1>1 DEF ProgramDue, Asking, waitrequest

(* No access, no frame to send and no reset holds the program up.          *)
THEOREM DriverRuns == Spec /\ Running => []<><<Program>>_vars
<1>1. DriverInv /\ ConfigInv /\ [Next]_vars =>
        \/ <<Program>>_vars
        \/ /\ Asking' <=> Asking
           /\ Waiting' <=> Waiting
           /\ Sending' <=> Sending
           /\ ProgramDue => ProgramDue'
           /\ BusFree => BusFree'
  BY OthersKeepPlace, DueStays DEF Asking, Waiting, Sending
<1>2. DriverInv => ProgramDue \/ Asking \/ Waiting \/ Sending
  BY DEF DriverInv, TypeOK, Labels, ProgramDue, Asking, Waiting, Sending
<1>3. DriverInv /\ Asking /\ BusFree /\ <<Clock>>_vars => ProgramDue'
  BY ClockFrees
<1>4. Waiting /\ BusFree => ProgramDue
  BY DEF Waiting, BusFree, ProgramDue
<1>5. DriverInv /\ Sending /\ ~ Sends => ProgramDue
  BY DEF DriverInv, TypeOK, Sending, Sends, ProgramDue
<1>6. Sending /\ <<TxIdle>>_vars => ProgramDue'
  BY DEF Sending, TxIdle, driver, ProgramDue
<1> QED
  BY <1>1, <1>2, <1>3, <1>4, <1>5, <1>6, ConfigInvariance, PTL DEF Spec, Running

(* The places between a frame that is done and the receiver's next start:  *)
(* with the frame in the buffer,                                           *)
New(l) == buffer = "new" /\ pc = l
NewTo(l, b) == New(l) /\ back = b     \* l is a place of eth0_tx
(* with the frame taken or dropped,                                        *)
Gone(l) == Taken /\ pc = l
(* and after a start that the controller, still busy, will have refused.   *)
Missed == owned /\ rx = "finishing" /\ pc # "start"
Restarted == rx = "waiting" \/ Refused

(* A damaged frame stays in the buffer, and the descriptor of a frame that *)
(* is being handed up stays the program's.                                 *)
FrameInv ==
  /\ damaged => buffer = "damaged"
  /\ Taken /\ pc # "start" => ~ owned

LEMMA FrameStays ==
  ASSUME DriverInv, FrameInv, [Next]_vars
  PROVE  FrameInv'
<1>1. TypeOK /\ BufferInv
  BY DEF DriverInv
<1>2. CASE Input \/ NoPbuf \/ Construct \/ Start \/ RxBegin \/ RxEnd
  BY <1>1, <1>2 DEF Input, NoPbuf, Take, Construct, Start, RxBegin, RxEnd, BufferInv, TypeOK,
     FrameInv, Taken, Goto, sender, driver
<1>3. CASE InitLoad \/ InitStore \/ InitNext \/ ResetLoad \/ LoopLoad
  BY <1>3 DEF InitLoad, InitStore, InitNext, ResetLoad, LoopLoad, Goto, receiver, FrameInv, Taken
<1>4. CASE ResetCheck \/ Link \/ CheckStatus \/ Timeouts \/ Copy \/ Send \/ Sent
  BY <1>1, <1>4 DEF ResetCheck, Link, CheckStatus, Timeouts, Copy, Send, Sent, Goto, Waited,
     receiver, sender, FrameInv, Taken, BufferInv, Initialising, TypeOK
<1>5. CASE RxIdle \/ TxIdle \/ PhyReset \/ PhyLink \/ Clock \/ Answer \/ UNCHANGED vars
  BY <1>5 DEF RxIdle, TxIdle, PhyReset, PhyLink, Clock, Answer, vars, driver, receiver, sender,
     FrameInv, Taken
<1> QED BY <1>2, <1>3, <1>4, <1>5 DEF Next, Program, Hardware

LEMMA NewWaits ==
  ASSUME DriverInv, ConfigInv, [Next]_vars, ~ <<Program>>_vars, NEW l
  PROVE  /\ New(l) => New(l)'
         /\ \A b : NewTo(l, b) => NewTo(l, b)'
         /\ Gone(l) => Gone(l)'
         /\ Missed => Missed' \/ Restarted'
<1>1. UNCHANGED <<pc, back>>
  BY OthersKeepPlace
<1>2. TypeOK /\ BufferInv
  BY DEF DriverInv
<1>3. New(l) => buffer' = "new"
  BY <1>2 DEF New, BufferInv, TypeOK, Next, Hardware, RxBegin, RxEnd, RxIdle, TxIdle,
     PhyReset, PhyLink, Clock, Answer, vars, receiver, Program
<1>4. Missed => Missed' \/ Restarted'
  BY <1>1 DEF Missed, Restarted, Refused, Next, Hardware, RxBegin, RxEnd, RxIdle, TxIdle,
     PhyReset, PhyLink, Clock, Answer, vars, receiver
<1> QED BY <1>1, <1>3, <1>4 DEF New, NewTo, Gone, Taken

LEMMA NewMoves ==
  ASSUME DriverInv, FrameInv, Program
  PROVE  /\ New("timeouts") => New("loop")' \/ NewTo("copy", "loop")'
         /\ NewTo("copy", "loop") => NewTo("send", "loop")'
         /\ NewTo("send", "loop") => NewTo("sent", "loop")'
         /\ NewTo("sent", "loop") => New("loop")'
         /\ NewTo("copy", "check") => NewTo("send", "check")'
         /\ NewTo("send", "check") => NewTo("sent", "check")'
         /\ NewTo("sent", "check") => New("check")'
         /\ New("loop") => New("link")'
         /\ New("link") => New("check")' \/ NewTo("copy", "check")'
         /\ New("check") => New("receive")'
         /\ New("receive") => Gone("copy")' \/ Gone("construct")'
         /\ Gone("copy") => Gone("send")'
         /\ Gone("send") => Gone("sent")'
         /\ Gone("sent") => Gone("construct")'
         /\ Gone("construct") => Gone("start")'
         /\ Gone("start") => Missed' \/ Restarted'
         /\ Missed => Missed'
<1> USE DEF New, NewTo, Gone, Taken, Goto
<1>1. TypeOK /\ BufferInv
  BY DEF DriverInv
<1>2. CASE InitLoad \/ InitStore \/ InitNext \/ ResetLoad \/ ResetCheck
  BY <1>1, <1>2 DEF InitLoad, InitStore, InitNext, ResetLoad, ResetCheck, Waited, BufferInv,
     Initialising, Missed
<1>3. CASE Construct \/ Start
  BY <1>1, <1>3 DEF Construct, Start, BufferInv, FrameInv, Missed, Restarted, sender, TypeOK
<1>4. CASE LoopLoad \/ Link \/ CheckStatus
  BY <1>1, <1>4 DEF LoopLoad, Link, CheckStatus, Waited, BufferInv, FrameInv, Missed,
     receiver, sender
<1>5. CASE Input \/ NoPbuf \/ Timeouts
  BY <1>1, <1>5 DEF Input, NoPbuf, Take, Timeouts, BufferInv, Missed, receiver, sender
<1>6. CASE Copy \/ Send \/ Sent
  BY <1>1, <1>6 DEF Copy, Send, Sent, BufferInv, Missed, receiver, sender, TypeOK
<1> QED BY <1>2, <1>3, <1>4, <1>5, <1>6 DEF Program

(* After each good frame the receiver is started again, unless it was      *)
(* still busy at that moment (ethernet.c:84-93, 163).                      *)
THEOREM ReceiverComesBack == Spec /\ Running => ReceiverRestarts
<1>1. Init => FrameInv
  BY DEF Init, FrameInv, Taken
<1>2. Spec => []FrameInv
  BY <1>1, FrameStays, DriverInvariance, PTL DEF Spec
<1>3. DriverInv /\ FrameInv /\ <<Program>>_vars =>
         /\ New("timeouts") => New("loop")' \/ NewTo("copy", "loop")'
         /\ NewTo("copy", "loop") => NewTo("send", "loop")'
         /\ NewTo("send", "loop") => NewTo("sent", "loop")'
         /\ NewTo("sent", "loop") => New("loop")'
         /\ NewTo("copy", "check") => NewTo("send", "check")'
         /\ NewTo("send", "check") => NewTo("sent", "check")'
         /\ NewTo("sent", "check") => New("check")'
         /\ New("loop") => New("link")'
         /\ New("link") => New("check")' \/ NewTo("copy", "check")'
         /\ New("check") => New("receive")'
         /\ New("receive") => Gone("copy")' \/ Gone("construct")'
         /\ Gone("copy") => Gone("send")'
         /\ Gone("send") => Gone("sent")'
         /\ Gone("sent") => Gone("construct")'
         /\ Gone("construct") => Gone("start")'
         /\ Gone("start") => Missed' \/ Restarted'
         /\ Missed => Missed'
  BY NewMoves
<1>4. DriverInv /\ ConfigInv /\ [Next]_vars =>
         \/ <<Program>>_vars
         \/ /\ New("timeouts") => New("timeouts")'
            /\ NewTo("copy", "loop") => NewTo("copy", "loop")'
            /\ NewTo("send", "loop") => NewTo("send", "loop")'
            /\ NewTo("sent", "loop") => NewTo("sent", "loop")'
            /\ NewTo("copy", "check") => NewTo("copy", "check")'
            /\ NewTo("send", "check") => NewTo("send", "check")'
            /\ NewTo("sent", "check") => NewTo("sent", "check")'
            /\ New("loop") => New("loop")'
            /\ New("link") => New("link")'
            /\ New("check") => New("check")'
            /\ New("receive") => New("receive")'
            /\ Gone("copy") => Gone("copy")'
            /\ Gone("send") => Gone("send")'
            /\ Gone("sent") => Gone("sent")'
            /\ Gone("construct") => Gone("construct")'
            /\ Gone("start") => Gone("start")'
            /\ Missed => Missed' \/ Restarted'
  BY NewWaits
<1>5. DriverInv /\ buffer = "new" =>
        \/ New("timeouts") \/ New("loop") \/ New("link") \/ New("check") \/ New("receive")
        \/ NewTo("copy", "loop") \/ NewTo("send", "loop") \/ NewTo("sent", "loop")
        \/ NewTo("copy", "check") \/ NewTo("send", "check") \/ NewTo("sent", "check")
  BY DEF New, NewTo, DriverInv, TypeOK, BufferInv, Labels, Initialising, Taken
<1>6. Missed => Finishing
  BY DEF Missed, Finishing
<1>7. Missed /\ <<RxIdle>>_vars => Restarted'
  BY DEF Missed, RxIdle, Restarted, Refused, driver
<1>8. Restarted => rx = "waiting" \/ Refused
  BY DEF Restarted
<1>9. Spec /\ Running => (Missed ~> Restarted)
  BY <1>2, <1>3, <1>4, <1>6, <1>7, ConfigInvariance, PTL DEF Spec, Running
<1>10. Spec /\ Running => (Gone("copy") \/ Gone("construct") ~> Missed \/ Restarted)
  BY <1>2, <1>3, <1>4, DriverRuns, ConfigInvariance, PTL DEF Spec
<1>11. Spec /\ Running => (New("check") \/ New("receive") ~> Gone("copy") \/ Gone("construct"))
  BY <1>2, <1>3, <1>4, DriverRuns, ConfigInvariance, PTL DEF Spec
<1>12. Spec /\ Running => (New("timeouts") \/ NewTo("copy", "loop") \/ NewTo("send", "loop")
                            \/ NewTo("sent", "loop") ~> New("loop"))
  BY <1>2, <1>3, <1>4, DriverRuns, ConfigInvariance, PTL DEF Spec
<1>13. Spec /\ Running => (NewTo("copy", "check") \/ NewTo("send", "check")
                            \/ NewTo("sent", "check") ~> New("check"))
  BY <1>2, <1>3, <1>4, DriverRuns, ConfigInvariance, PTL DEF Spec
<1>14. Spec /\ Running => (New("loop") \/ New("link") ~> New("check") \/ NewTo("copy", "check"))
  BY <1>2, <1>3, <1>4, DriverRuns, ConfigInvariance, PTL DEF Spec
<1> QED
  BY <1>5, <1>8, <1>9, <1>10, <1>11, <1>12, <1>13, <1>14, DriverInvariance, PTL
     DEF ReceiverRestarts

------------------------------------------------------------------------------
(* The initialisation ends.                                                *)

Set(n, l) == step = n /\ pc = l
Stored == step = 3
Calm == step = 3 /\ ~ Resetting      \* all is stored, and the reset is over
Clean ==                             \* and the program is reading this
  /\ Calm /\ pc = "reset"
  /\ Performed => word[ResetBit] # 1
  /\ op = "none" => result[ResetBit] # 1
Out == ~ Initialising

LEMMA SetMoves ==
  ASSUME DriverInv, Program
  PROVE  /\ pc = "init" /\ step < 3 => pc' = "set" /\ step' = step
         /\ pc = "set" => pc' = "wrote" /\ step' = step
         /\ pc = "wrote" => pc' = "init" /\ step' = step + 1
         /\ Set(3, "init") => Set(3, "reset")'
         /\ Set(3, "reset") => Set(3, "init")' \/ Out'
         /\ Calm /\ Set(3, "init") => Set(3, "reset")' /\ ~ Performed' /\ op' # "none"
         /\ Clean => Out'
         /\ Out => Out'
<1>1. back \in {"check", "construct", "loop"}
  BY DEF DriverInv, TypeOK
<1>2. ASSUME NEW kind, NEW r, NEW w, Ask(kind, r, w) PROVE ~ Performed' /\ op' = kind
  BY <1>2, AskAccess DEF DriverInv, Ask
<1> USE DEF Set, Out, Initialising, Goto, Waited, Clean
<1>3. CASE InitLoad \/ InitStore \/ InitNext
  BY <1>3 DEF InitLoad, InitStore, InitNext
<1>4. CASE ResetLoad
  BY <1>2, <1>4 DEF ResetLoad, Load
<1>5. CASE ResetCheck
  BY <1>5 DEF ResetCheck
<1>6. CASE ~ (InitLoad \/ InitStore \/ InitNext \/ ResetLoad \/ ResetCheck)
  BY <1>1, <1>6 DEF Program, Construct, Start, LoopLoad, Link, CheckStatus, Input, NoPbuf,
     Timeouts, Copy, Send, Sent
<1> QED BY <1>3, <1>4, <1>5, <1>6

(* What the bus does to the registers and to what is read of them, apart   *)
(* from the program's own steps.                                           *)
LEMMA BusSteps ==
  ASSUME DriverInv, ConfigInv, [Next]_vars, ~ <<Program>>_vars
  PROVE  /\ UNCHANGED address
         /\ op' # op => op' = "none" /\ Performed
         /\ op' = "none" => result' = IF op = "read" THEN word ELSE result
         /\ Performed' /\ op = "read" => word' = IF Performed THEN word ELSE registers[address]
         /\ \/ UNCHANGED registers
            \/ op = "write" /\ registers' = [registers EXCEPT ![address] = writedata]
            \/ PhyReset \/ PhyLink
<1>1. registers \in [Registers -> Words] /\ address \in Registers /\ IInv
      /\ word \in Words /\ word # NoAnswer
  BY Answers DEF DriverInv, TypeOK, MdioTypeOK
<1>2. CASE Clock
  <2>1. UNCHANGED <<op, address, writedata, result>>
    BY <1>2 DEF Clock, Tick, bus
  <2>2. CASE UNCHANGED Access!vars
    <3>1. word' # NoAnswer
      BY Busses, Answers DEF DriverInv, MdioTypeOK
    <3>2. (Performed' <=> Performed) /\ (Performed => word' = word) /\ registers' = registers
      BY <1>1, <2>2, <3>1 DEF Access!vars
    <3> QED BY <2>1, <3>2
  <2>3. CASE Access!Perform
    <3>1. ~ Performed /\ op # "none"
      BY <1>1, <2>3 DEF Access!Perform
    <3>2. CASE op = "read"
      <4>1. registers' = registers /\ registers[address] # NoAnswer
        BY <1>1, <2>3, <3>2, Answers DEF Access!Perform
      <4>2. word' = registers[address]
        BY <2>3, <3>2, <4>1 DEF Access!Perform
      <4> QED BY <2>1, <3>1, <4>1, <4>2
    <3>3. CASE op = "write"
      BY <2>1, <2>3, <3>1, <3>3 DEF Access!Perform
    <3> QED BY <2>3, <3>2, <3>3 DEF Access!Perform
  <2> QED BY <1>1, <1>2, <2>2, <2>3, TickAccess DEF Clock
<1>3. CASE Answer
  <2>1. Performed /\ ~ Performed' /\ (op = "read" => readdata = word)
    BY <1>1, <1>3, CompleteAccess DEF Answer
  <2> QED BY <1>3, <2>1 DEF Answer, Complete, phy
<1>4. CASE PhyReset \/ PhyLink
  BY <1>4, ChangeAccess DEF PhyReset, PhyLink, PhyChanges, bus, master
<1>5. CASE RxBegin \/ RxEnd \/ RxIdle \/ TxIdle \/ UNCHANGED vars
  <2>1. UNCHANGED mdioVars
    BY <1>5 DEF RxBegin, RxEnd, RxIdle, TxIdle, vars
  <2> QED BY <2>1 DEF mdioVars, bus, master, phy, Performed, mdc
<1>6. Program => UNCHANGED vars
  OBVIOUS
<1> QED BY <1>2, <1>3, <1>4, <1>5, <1>6 DEF Next, Hardware

LEMMA ControlKept ==
  ASSUME DriverInv, ConfigInv, [Next]_vars, step = 3
  PROVE  /\ step' = 3
         /\ ~ Resetting => ~ Resetting'
<1>1. CASE <<Program>>_vars
  <2>1. UNCHANGED registers
    BY <1>1 DEF Program, InitLoad, InitStore, InitNext, ResetLoad, ResetCheck, Construct,
       Start, LoopLoad, Link, CheckStatus, Input, NoPbuf, Timeouts, Copy, Send, Sent, Load,
       Store, Ask, mdioVars, phy
  <2>2. step' = 3
    BY <1>1 DEF Program, InitLoad, InitStore, InitNext, ResetLoad, ResetCheck, Construct,
       Start, LoopLoad, Link, CheckStatus, Input, NoPbuf, Timeouts, Copy, Send, Sent, Waited,
       DriverInv, BufferInv
  <2> QED BY <2>1, <2>2 DEF Resetting
<1>2. CASE ~ <<Program>>_vars
  <2>1. op # "write" /\ step' = 3
    BY <1>2, OthersKeepPlace DEF ConfigInv, BusInv, DriverInv, BufferInv
  <2>2. PhyReset => Resetting
    BY DEF PhyReset, Resetting
  <2>3. PhyLink => registers'[Control] = registers[Control]
    BY RegisterAssumption DEF PhyLink, PhyChanges, DriverInv, TypeOK, MdioTypeOK
  <2> QED BY <1>2, <2>1, <2>2, <2>3, BusSteps DEF Resetting
<1> QED BY <1>1, <1>2

LEMMA SetWaits ==
  ASSUME DriverInv, ConfigInv, [Next]_vars, ~ <<Program>>_vars
  PROVE  /\ \A n, l : Set(n, l) => Set(n, l)'
         /\ Out => Out'
         /\ Clean => Clean'
<1>1. UNCHANGED <<pc, step>>
  BY OthersKeepPlace
<1>2. Clean => Clean'
  <2>1. SUFFICES ASSUME Clean PROVE Clean'
    OBVIOUS
  <2>2. op \in {"none", "read"} /\ (op # "none" => address = Control)
    BY <2>1 DEF Clean, ConfigInv, BusInv, DriverInv, TypeOK, MdioTypeOK
  <2>3. Calm'
    BY <2>1, ControlKept DEF Clean, Calm
  <2>4. Performed' => word'[ResetBit] # 1
    <3>1. Performed' => op = "read" /\ word' = IF Performed THEN word ELSE registers[Control]
      BY <2>2, BusSteps DEF Performed
    <3> QED BY <2>1, <3>1 DEF Clean, Calm, Resetting
  <2>5. op' = "none" => result'[ResetBit] # 1
    BY <2>1, <2>2, BusSteps DEF Clean
  <2> QED BY <1>1, <2>1, <2>3, <2>4, <2>5 DEF Clean
<1> QED BY <1>1, <1>2 DEF Set, Out, Initialising

LEMMA ResetEnds ==
  ASSUME DriverInv, PhyReset
  PROVE  ~ Resetting'
<1>1. registers \in [Registers -> Words] /\ Control \in Registers /\ ResetBit \in 1 .. DataBits
  BY RegisterAssumption DEF DriverInv, TypeOK, MdioTypeOK
<1>2. registers'[Control] = [registers[Control] EXCEPT ![ResetBit] = 0]
  BY <1>1 DEF PhyReset, PhyChanges
<1>3. registers[Control] \in [1 .. DataBits -> Bit]
  BY <1>1 DEF Words
<1> QED BY <1>1, <1>2, <1>3 DEF Resetting

(* eth0_init comes to its end: three registers are set, and the loop that  *)
(* waits for the reset sees it over (ethernet.c:128-141).                  *)
THEOREM InitialisationEnds == Spec /\ Running => <>[]Out
<1> DEFINE Inv == DriverInv /\ ConfigInv
<1>1. Inv /\ <<Program>>_vars =>
        /\ Set(0, "init") => Set(0, "set")'
        /\ Set(0, "set") => Set(0, "wrote")'
        /\ Set(0, "wrote") => Set(1, "init")'
        /\ Set(1, "init") => Set(1, "set")'
        /\ Set(1, "set") => Set(1, "wrote")'
        /\ Set(1, "wrote") => Set(2, "init")'
        /\ Set(2, "init") => Set(2, "set")'
        /\ Set(2, "set") => Set(2, "wrote")'
        /\ Set(2, "wrote") => Set(3, "init")'
        /\ Set(3, "init") => Set(3, "reset")'
        /\ Set(3, "reset") => Set(3, "init")' \/ Out'
        /\ Clean => Out'
        /\ Out => Out'
  BY SetMoves DEF Set
<1>2. Inv /\ [Next]_vars =>
        \/ <<Program>>_vars
        \/ /\ Set(0, "init") => Set(0, "init")'
           /\ Set(0, "set") => Set(0, "set")'
           /\ Set(0, "wrote") => Set(0, "wrote")'
           /\ Set(1, "init") => Set(1, "init")'
           /\ Set(1, "set") => Set(1, "set")'
           /\ Set(1, "wrote") => Set(1, "wrote")'
           /\ Set(2, "init") => Set(2, "init")'
           /\ Set(2, "set") => Set(2, "set")'
           /\ Set(2, "wrote") => Set(2, "wrote")'
           /\ Set(3, "init") => Set(3, "init")'
           /\ Set(3, "reset") => Set(3, "reset")'
           /\ Clean => Clean'
           /\ Out => Out'
  BY SetWaits
<1>3. Init => Set(0, "init")
  BY DEF Init, Set
<1>4. Set(3, "init") => Stored
  BY DEF Set, Stored
<1>5. Inv /\ [Next]_vars /\ Stored => Stored' /\ (~ Resetting => ~ Resetting')
  BY ControlKept DEF Stored
<1>6. Inv /\ <<PhyReset>>_vars => ~ Resetting'
  BY ResetEnds
<1>7. Inv /\ Stored => Set(3, "init") \/ Set(3, "reset") \/ Out
  BY DEF Stored, Set, Out, Initialising, DriverInv, BufferInv
<1>8. Inv /\ [Next]_vars /\ Stored /\ ~ Resetting /\ Set(3, "init") =>
        \/ <<Program>>_vars /\ Clean'
        \/ ~ <<Program>>_vars
  <2>1. SUFFICES ASSUME Inv, Stored, ~ Resetting, Set(3, "init"), <<Program>>_vars
                 PROVE  Clean'
    OBVIOUS
  <2>2. Set(3, "reset")' /\ ~ Performed' /\ op' # "none"
    BY <2>1, SetMoves DEF Calm, Stored
  <2>3. Calm'
    BY <2>1, <2>2, ControlKept DEF Calm, Next, Stored
  <2> QED BY <2>2, <2>3 DEF Clean, Set
<1> HIDE DEF Inv
<1>9. Spec => []Inv
  BY ConfigInvariance, PTL DEF Inv
<1>10. Spec /\ Running => <>Stored
  BY <1>1, <1>2, <1>3, <1>4, <1>9, DriverRuns, PTL DEF Spec
<1>11. Spec /\ Running => <>[](Stored /\ ~ Resetting)
  BY <1>5, <1>6, <1>9, <1>10, PTL DEF Spec, Running
<1>12. Spec /\ Running => <>Out
  BY <1>1, <1>2, <1>7, <1>8, <1>9, <1>11, DriverRuns, PTL DEF Spec
<1> QED
  BY <1>1, <1>2, <1>9, <1>12, PTL DEF Spec

------------------------------------------------------------------------------
(* eth_loop comes round again and again, and what it has seen of the link. *)

Free(l) == ~ Taken /\ pc = l
FreeTo(l, b) == pc = l /\ back = b    \* l is a place of eth0_tx, b not the receiver's

LEMMA LoopMoves ==
  ASSUME DriverInv, Program
  PROVE  /\ Free("timeouts") => Free("loop")' \/ FreeTo("copy", "loop")'
         /\ FreeTo("copy", "loop") => FreeTo("send", "loop")'
         /\ FreeTo("send", "loop") => FreeTo("sent", "loop")'
         /\ FreeTo("sent", "loop") => Free("loop")'
         /\ FreeTo("copy", "check") => FreeTo("send", "check")'
         /\ FreeTo("send", "check") => FreeTo("sent", "check")'
         /\ FreeTo("sent", "check") => Free("check")'
         /\ Free("loop") => Free("link")'
         /\ Free("link") => Free("check")' \/ FreeTo("copy", "check")'
         /\ Free("check") => Free("timeouts")' \/ Free("receive")'
         /\ Free("receive") => Gone("copy")' \/ Gone("construct")'
         /\ Gone("copy") => Gone("send")'
         /\ Gone("send") => Gone("sent")'
         /\ Gone("sent") => Gone("construct")'
         /\ Gone("construct") => Gone("start")'
         /\ Gone("start") => Free("loop")'
<1> USE DEF Free, FreeTo, Gone, Taken, Goto
<1>1. back \in {"check", "construct", "loop"}
  BY DEF DriverInv, TypeOK
<1>2. CASE InitLoad \/ InitStore \/ InitNext \/ ResetLoad \/ ResetCheck
  BY <1>2 DEF InitLoad, InitStore, InitNext, ResetLoad, ResetCheck, Waited
<1>3. CASE Construct \/ Start \/ LoopLoad \/ Link \/ CheckStatus
  BY <1>3 DEF Construct, Start, LoopLoad, Link, CheckStatus, Waited, sender
<1>4. CASE Input \/ NoPbuf \/ Timeouts
  BY <1>4 DEF Input, NoPbuf, Timeouts, sender
<1>5. CASE Copy \/ Send \/ Sent
  BY <1>1, <1>5 DEF Copy, Send, Sent, sender
<1> QED BY <1>2, <1>3, <1>4, <1>5 DEF Program

LEMMA LoopWaits ==
  ASSUME DriverInv, ConfigInv, [Next]_vars, ~ <<Program>>_vars, NEW l
  PROVE  /\ Free(l) => Free(l)'
         /\ \A b : FreeTo(l, b) => FreeTo(l, b)'
         /\ Gone(l) => Gone(l)'
BY OthersKeepPlace DEF Free, FreeTo, Gone, Taken

(* Once initialised, the driver looks at the link again and again, however *)
(* many frames come and go: no path through eth_loop is a dead end.        *)
THEOREM LoopComesRound == Spec /\ Running => []<>Free("loop") /\ []<>Free("link")
<1>1. DriverInv /\ <<Program>>_vars =>
         /\ Free("timeouts") => Free("loop")' \/ FreeTo("copy", "loop")'
         /\ FreeTo("copy", "loop") => FreeTo("send", "loop")'
         /\ FreeTo("send", "loop") => FreeTo("sent", "loop")'
         /\ FreeTo("sent", "loop") => Free("loop")'
         /\ FreeTo("copy", "check") => FreeTo("send", "check")'
         /\ FreeTo("send", "check") => FreeTo("sent", "check")'
         /\ FreeTo("sent", "check") => Free("check")'
         /\ Free("loop") => Free("link")'
         /\ Free("link") => Free("check")' \/ FreeTo("copy", "check")'
         /\ Free("check") => Free("timeouts")' \/ Free("receive")'
         /\ Free("receive") => Gone("copy")' \/ Gone("construct")'
         /\ Gone("copy") => Gone("send")'
         /\ Gone("send") => Gone("sent")'
         /\ Gone("sent") => Gone("construct")'
         /\ Gone("construct") => Gone("start")'
         /\ Gone("start") => Free("loop")'
  BY LoopMoves
<1>2. DriverInv /\ ConfigInv /\ [Next]_vars =>
         \/ <<Program>>_vars
         \/ /\ Free("timeouts") => Free("timeouts")'
            /\ FreeTo("copy", "loop") => FreeTo("copy", "loop")'
            /\ FreeTo("send", "loop") => FreeTo("send", "loop")'
            /\ FreeTo("sent", "loop") => FreeTo("sent", "loop")'
            /\ FreeTo("copy", "check") => FreeTo("copy", "check")'
            /\ FreeTo("send", "check") => FreeTo("send", "check")'
            /\ FreeTo("sent", "check") => FreeTo("sent", "check")'
            /\ Free("loop") => Free("loop")'
            /\ Free("link") => Free("link")'
            /\ Free("check") => Free("check")'
            /\ Free("receive") => Free("receive")'
            /\ Gone("copy") => Gone("copy")'
            /\ Gone("send") => Gone("send")'
            /\ Gone("sent") => Gone("sent")'
            /\ Gone("construct") => Gone("construct")'
            /\ Gone("start") => Gone("start")'
  BY LoopWaits
<1>3. DriverInv /\ Out =>
        \/ Free("timeouts") \/ Free("loop") \/ Free("link") \/ Free("check") \/ Free("receive")
        \/ FreeTo("copy", "loop") \/ FreeTo("send", "loop") \/ FreeTo("sent", "loop")
        \/ FreeTo("copy", "check") \/ FreeTo("send", "check") \/ FreeTo("sent", "check")
        \/ Gone("copy") \/ Gone("send") \/ Gone("sent")
        \/ Gone("construct") \/ Gone("start")
  BY DEF Free, FreeTo, Gone, Out, DriverInv, TypeOK, Labels, Initialising, Taken
<1>4. Spec /\ Running => (Free("timeouts") \/ FreeTo("copy", "loop") \/ FreeTo("send", "loop")
                            \/ FreeTo("sent", "loop") ~> Free("loop"))
  BY <1>1, <1>2, DriverRuns, ConfigInvariance, PTL DEF Spec
<1>5. Spec /\ Running => (Gone("copy") \/ Gone("send") \/ Gone("sent") \/ Gone("construct")
                            \/ Gone("start") ~> Free("loop"))
  BY <1>1, <1>2, DriverRuns, ConfigInvariance, PTL DEF Spec
<1>6. Spec /\ Running => (Free("check") \/ Free("receive")
                            ~> Free("timeouts") \/ Gone("copy") \/ Gone("construct"))
  BY <1>1, <1>2, DriverRuns, ConfigInvariance, PTL DEF Spec
<1>7. Spec /\ Running => (Free("loop") ~> Free("link"))
  BY <1>1, <1>2, DriverRuns, ConfigInvariance, PTL DEF Spec
<1>8. Spec /\ Running => (Free("link") ~> Free("check") \/ FreeTo("copy", "check"))
  BY <1>1, <1>2, DriverRuns, ConfigInvariance, PTL DEF Spec
<1>9. Spec /\ Running => (FreeTo("copy", "check") \/ FreeTo("send", "check")
                            \/ FreeTo("sent", "check") ~> Free("check"))
  BY <1>1, <1>2, DriverRuns, ConfigInvariance, PTL DEF Spec
<1>10. Spec /\ Running => []<>Free("loop")
  BY <1>3, <1>4, <1>5, <1>6, <1>7, <1>8, <1>9, DriverInvariance, InitialisationEnds, PTL
<1> QED
  BY <1>7, <1>10, PTL

(* The link as it is, as the access of this turn finds it, and as the      *)
(* stack knows it                                                          *)
Linked(v) == registers[Status][LinkBit] = v
Fresh(v) ==
  pc = "link" =>
    /\ Performed => word[LinkBit] = v
    /\ op = "none" => result[LinkBit] = v
Known(v) == linkUp = (v = 1)

LinkInv == op # "none" /\ pc = "link" => op = "read" /\ address = Status

LEMMA LinkAsked ==
  ASSUME DriverInv, ConfigInv, LinkInv, [Next]_vars
  PROVE  LinkInv'
<1>1. CASE <<Program>>_vars
  <2>1. back \in {"check", "construct", "loop"}
    BY DEF DriverInv, TypeOK
  <2> QED
    BY <1>1, <2>1 DEF Program, InitLoad, InitStore, InitNext, ResetLoad, ResetCheck, Construct,
       Start, LoopLoad, Link, CheckStatus, Input, NoPbuf, Timeouts, Copy, Send, Sent, Load, Ask,
       Goto, LinkInv
<1>2. CASE ~ <<Program>>_vars
  BY <1>2, BusSteps, OthersKeepPlace DEF LinkInv
<1> QED BY <1>1, <1>2

LEMMA LinkSeen ==
  ASSUME DriverInv, ConfigInv, LinkInv, [Next]_vars, NEW v \in Bit
  PROVE  /\ Free("loop") => Fresh(v)
         /\ Fresh(v) /\ Linked(v) => Fresh(v)'
         /\ Fresh(v) /\ Known(v) => Known(v)'
         /\ Fresh(v) /\ Free("link") /\ <<Program>>_vars => Known(v)'
<1>1. Free("loop") => Fresh(v)
  BY DEF Free, Fresh
<1>2. CASE <<Program>>_vars
  <2>1. CASE LoopLoad
    <3>1. ~ Performed' /\ op' # "none" /\ linkUp' = linkUp /\ pc = "loop"
      BY <2>1, AskAccess DEF LoopLoad, Load, Ask, DriverInv
    <3> QED BY <1>1, <3>1 DEF Fresh, Known, Free
  <2>2. CASE Link
    BY <1>1, <2>2 DEF Link, Waited, Goto, Fresh, Known, Free
  <2>3. CASE ~ LoopLoad /\ ~ Link
    <3>1. back \in {"check", "construct", "loop"}
      BY DEF DriverInv, TypeOK
    <3>2. linkUp' = linkUp /\ pc' # "link" /\ pc # "link"
      BY <1>2, <2>3, <3>1 DEF Program, InitLoad, InitStore, InitNext, ResetLoad, ResetCheck,
         Construct, Start, CheckStatus, Input, NoPbuf, Timeouts, Copy, Send, Sent, Goto, Waited
    <3> QED BY <1>1, <3>2 DEF Fresh, Known, Free
  <2> QED BY <2>1, <2>2, <2>3
<1>3. CASE ~ <<Program>>_vars
  <2>1. UNCHANGED <<pc, linkUp>>
    BY <1>3, OthersKeepPlace
  <2>2. ASSUME Fresh(v), Linked(v), pc = "link" PROVE Fresh(v)'
    <3>1. op # "none" => op = "read" /\ address = Status
      BY <2>2 DEF LinkInv
    <3>2. Performed' => word'[LinkBit] = v
      <4>1. Performed' => op = "read" /\ word' = IF Performed THEN word ELSE registers[Status]
        BY <1>3, <3>1, BusSteps DEF Performed, DriverInv, TypeOK, MdioTypeOK
      <4> QED BY <2>2, <4>1 DEF Fresh, Linked
    <3>3. op' = "none" => result'[LinkBit] = v
      <4>1. op' = "none" => /\ result' = IF op = "read" THEN word ELSE result
                            /\ op = "none" \/ Performed
        BY <1>3, BusSteps
      <4> QED BY <2>2, <3>1, <4>1 DEF Fresh
    <3> QED BY <3>2, <3>3 DEF Fresh
  <2> QED BY <1>1, <1>3, <2>1, <2>2 DEF Fresh, Known
<1> QED BY <1>2, <1>3

(* A link that stays as it is, is known to the stack in the end: no load   *)
(* brings a state of the link older than itself, and the loop that looks   *)
(* never stops (ethernet.c:70-80).                                         *)
THEOREM LinkIsFollowed == Spec /\ Running => LinkFollows
<1>1. Init => LinkInv
  BY DEF Init, LinkInv
<1>2. Spec => []LinkInv
  BY <1>1, LinkAsked, ConfigInvariance, PTL DEF Spec
<1>3. ASSUME NEW v \in Bit
      PROVE  Spec /\ Running => (<>[](registers[Status][LinkBit] = v) => <>[](linkUp = (v = 1)))
  <2>1. DriverInv /\ ConfigInv /\ LinkInv /\ [Next]_vars =>
          /\ Free("loop") => Fresh(v)
          /\ Fresh(v) /\ Linked(v) => Fresh(v)'
          /\ Fresh(v) /\ Known(v) => Known(v)'
          /\ Fresh(v) /\ Free("link") /\ <<Program>>_vars => Known(v)'
    BY LinkSeen
  <2>2. DriverInv /\ ConfigInv /\ [Next]_vars =>
          <<Program>>_vars \/ (Free("link") => Free("link")')
    BY LoopWaits
  <2>3. registers[Status][LinkBit] = v <=> Linked(v)
    BY DEF Linked
  <2>4. linkUp = (v = 1) <=> Known(v)
    BY DEF Known
  <2> QED
    BY <1>2, <2>1, <2>2, <2>3, <2>4, ConfigInvariance, DriverRuns, LoopComesRound, PTL DEF Spec
<1> QED
  BY <1>3 DEF LinkFollows
=============================================================================
