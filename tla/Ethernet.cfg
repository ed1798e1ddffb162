SPECIFICATION FairSpec
CONSTANTS
  CLOCK_DIVIDER = 4
  PhyBits = 2
  RegBits = 2
  DataBits = 3
  phy_addr <- PhyAddress
  PowerUp <- AtPowerUp
  Control <- ControlReg
  Status <- StatusReg
  Config1 <- Config1Reg
  Config2 <- Config2Reg
  SetBits <- Bits
  ResetBit = 1
  LinkBit = 3
INVARIANTS
  TypeOK
  Configured
  NoContention
PROPERTIES
  AtomicAccess
  FramesSeparated
  BuffersKept
  ReceiverRestarts
  DamageIsFinal
  LinkFollows
