\* Frame processing: no root-hub ports, every kind of guest list memory.
CONSTANTS
  e1 = e1
  e2 = e2
  e3 = e3
  t1 = t1
  bad = bad
  p1 = p1
  p2 = p2
  EDs <- MCEDs
  TDs <- MCTDs
  BadAddr = bad
  ED_LINK_LIMIT = 2
  DelayIntervals = {1}
  IntrBits = {"SF", "WD", "UE", "RHSC"}
  IntrEnableWrites = {{"MIE"}, {"SF", "WD", "UE", "RHSC"}}
  IntrStatusWrites = {{"SF", "WD", "UE", "RHSC"}}
  Ports = {}
  FrameNumberMod = 4
  ControlWrites <- MCControlWritesFrames
  CommandWrites = {{"CLF", "BLF"}, {"HCR"}}
  HeadWrites = {"NULL", e1}
  HccaWrites = {"HccaRam", "HccaRom", bad}
  FrameMemories <- MCFrameMemories
  PeriodicHeads = {e1}
  PortWrites = {}
  HubWrites = {}
  MmioOffsets = {4, 8, 12, 16, 20, 24, 32, 40, 100}
  MaxRootPorts = 15
  MmioWindow = 4096
SPECIFICATION Spec
INVARIANT TypeOK
INVARIANT NoLostInterrupt
INVARIANT NoAbortInDoneLatch
 
