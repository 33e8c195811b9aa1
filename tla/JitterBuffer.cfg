CONSTANTS
  Half = 16
  SlotCount = 8
  Prebuffer = 4
SPECIFICATION FairSpec
INVARIANT BufferInv
INVARIANT Accounting
PROPERTY PlayoutAdvances
PROPERTY JumpLandsOnFrame
PROPERTY FramesArePlayed
