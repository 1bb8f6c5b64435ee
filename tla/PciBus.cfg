\* The PCI bus with USB0 and the APU: configuration space, device table,
\* BAR routing and register decode of guest MMIO accesses.
CONSTANTS
  dv1 = dv1
  dv2 = dv2
  val0 = val0
  val1 = val1
  Ohci = dv1
  Apu = dv2
  NumPorts = 4
  ApuBlocks <- MCApuBlocks
  Devs <- MCDevs
  Triples <- MCTriples
  ConfigBytes = {0, 5}
  Values = {val1}
  ResetValue = val0
  Bars <- MCBars
  Addrs <- MCAddrs
SPECIFICATION PciMmioSpec
INVARIANTS TypeOK ConfigSpaceMatchesGuestWrites
PROPERTY MmioReachesLayoutRegister
