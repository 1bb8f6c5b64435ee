\* Frame liveness under weak fairness of the EOF timer callback: one ED
\* list, frames that run, pause or Die, RAM, ROM and unreadable HCCA.
\* With three EDs it also checks the ED-list walk against its reference
\* definition over every guest memory, head and pending TD.
CONSTANTS
  e1 = e1
  e2 = e2
  e3 = e3
  t1 = t1
  bad = bad
  p1 = p1
  p2 = p2
  EDs <- MCEDs3
  TDs <- MCTDs
  BadAddr = bad
  ED_LINK_LIMIT = 2
  DelayIntervals = {1}
  IntrBits = {"SF", "WD", "UE", "RHSC"}
  IntrEnableWrites = {{"MIE"}}
  IntrStatusWrites = {{"SF", "WD", "UE", "RHSC"}}
  Ports = {}
  FrameNumberMod = 4
  ControlWrites <- MCControlWritesLive
  CommandWrites = {{"CLF", "BLF"}}
  HeadWrites = {e1}
  HccaWrites = {"HccaRam", "HccaRom", bad}
  FrameMemories <- MCFrameMemoriesLive
  PeriodicHeads = {e1}
  PortWrites = {}
  HubWrites = {}
  MmioOffsets = {4, 8, 12, 16, 20, 24, 32, 40, 100}
  MaxRootPorts = 15
  MmioWindow = 4096
SPECIFICATION FairSpecUnfolded
PROPERTY FramesKeepComing
PROPERTY WalkDiesIffListCorrupt
PROPERTY WalkCancelsAsyncOfPausedEd
