\* Root hub: two ports with hot-plug, every port and hub write; the bus is
\* never made operational, so no frame runs.
CONSTANTS
  e1 = e1
  e2 = e2
  e3 = e3
  t1 = t1
  bad = bad
  p1 = p1
  p2 = p2
  EDs <- MCEDs
  TDs <- MCTDs
  BadAddr = bad
  ED_LINK_LIMIT = 2
  DelayIntervals = {1}
  IntrBits = {"SF", "WD", "UE", "RHSC"}
  IntrEnableWrites = {{"MIE"}, {"SF", "WD", "UE", "RHSC"}}
  IntrStatusWrites = {{"SF", "WD", "UE", "RHSC"}}
  Ports <- MCPorts2
  FrameNumberMod = 4
  ControlWrites <- MCControlWritesHub
  CommandWrites = {{"HCR"}}
  HeadWrites = {}
  HccaWrites = {}
  FrameMemories <- MCFrameMemories
  PeriodicHeads = {}
  PortWrites <- MCPortWrites
  HubWrites <- MCHubWrites
  MmioOffsets = {4, 8, 12, 16, 20, 80, 84, 88, 100}
  MaxRootPorts = 15
  MmioWindow = 4096
SPECIFICATION Spec
INVARIANT NoLostInterrupt
INVARIANT ConnectedOrEnabledPortHasDevice
PROPERTY RegisterDecodeMatchesLayout
