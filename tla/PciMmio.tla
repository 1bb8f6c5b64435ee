------------------------------ MODULE PciMmio ------------------------------
(***************************************************************************)
(* A guest's MMIO access end to end: the PCI bus (PciBus) scans its        *)
(* devices in key order for the one whose memory BAR holds the address and *)
(* calls that device's PCIMMIORead or PCIMMIOWrite with the offset into    *)
(* the BAR; the device decodes the offset.  The devices are the ones of    *)
(* this repository that register a memory BAR: an OHCI controller          *)
(* (USBOHCIDevice, decode in OhciRegisters) and the audio processing unit  *)
(* (NVAPUDevice, NvApu).  What a register access then does to the OHCI is *)
(* OhciController's business; here it is the register the access reaches. *)
(* Neither device registers an IO BAR, so Addrs are memory addresses and  *)
(* the IO scan (the same BarScan) is not exercised here.                  *)
(***************************************************************************)
EXTENDS PciBus, OhciRegisters, NvApu

CONSTANTS
  Ohci,       \* the USBOHCIDevice on the bus
  NumPorts    \* its m_numPorts

ASSUME Devs = {Ohci, Apu}

VARIABLE reached   \* the last MMIO access and the handler it reached

allVars == <<vars, reached>>

NoHandler == Call("none", 0, "none")
NoReach == [op |-> "none", addr |-> 0, dev |-> NoRoute, at |-> NoHandler]

\* The virtual call dev->PCIMMIORead / PCIMMIOWrite(barIndex, offset):
\* USBOHCIDevice::PCIMMIORead (501-618) and PCIMMIOWrite (621-743), or
\* NVAPUDevice::PCIMMIORead (81-103) and PCIMMIOWrite (105-122).
DeviceMMIORead(d, off) ==
  IF d = Apu THEN ApuMMIORead(off) ELSE ReadRegister(NumPorts, off)
DeviceMMIOWrite(d, off) ==
  IF d = Apu THEN ApuMMIOWrite(off) ELSE WriteRegister(NumPorts, off)

\* Where a routed access of op lands; an unrouted one returns false to the
\* caller and reaches no handler.
Reach(op, acc) ==
  [op |-> op, addr |-> acc.addr, dev |-> acc.to,
   at |-> IF acc.to = NoRoute THEN NoHandler
          ELSE IF op = "read" THEN DeviceMMIORead(acc.to, acc.offset)
          ELSE DeviceMMIOWrite(acc.to, acc.offset)]

PciMmioInit == Init /\ reached = NoReach

\* PCIBus::MMIORead (154-165) and the device's PCIMMIORead.
MMIORead(a) ==
  /\ DeviceAccess("mem", a)
  /\ reached' = Reach("read", lastAccess')

\* PCIBus::MMIOWrite (167-179) and the device's PCIMMIOWrite.
MMIOWrite(a) ==
  /\ DeviceAccess("mem", a)
  /\ reached' = Reach("write", lastAccess')

PciMmioNext ==
  \/ /\ \/ \E t \in Triples, d \in Devs : ConnectDevice(t, d)
        \/ \E t \in Triples, reg \in 0..255 :
             (4 * (reg \div 4)) \in {4 * (b \div 4) : b \in ConfigBytes}
             /\ reg % 4 \in {0, 1} /\ IOWriteConfigAddress(t, reg)
        \/ \E off \in 0..3, v \in Values : IOWriteConfigData(off, v)
        \/ \E off \in 0..3 : IOReadConfigData(off)
        \/ Reset
     /\ UNCHANGED reached
  \/ \E a \in Addrs : MMIORead(a) \/ MMIOWrite(a)

PciMmioSpec == PciMmioInit /\ [][PciMmioNext]_allVars

-----------------------------------------------------------------------------
\* What the layouts say an access of op at offset off of device d reaches.
\* The OHCI: the spec's register layout.  The APU: a read in a block goes
\* to that block's read handler at the offset into the block (the FIFO
\* status reading as empty), outside the blocks 0x200C reads the timer; a
\* write in a block reaches a handler at the offset into the block.
LayoutTarget(d, op, off) ==
  IF d = Ohci THEN LayoutAllows(NumPorts, off, op)
  ELSE LET b == BlockAt(off)
           boff == IF b = "none" THEN off ELSE off - ApuBlocks[b].base
       IN  IF op = "read"
             THEN {Call(ReadHandler[b], boff,
                        CASE b = "VP" /\ boff = VP_FIFO_STATUS -> FifoEmpty
                          [] b = "none" /\ off = APU_TIME_ADDR -> ApuTime
                          [] OTHER -> Undefined)}
             ELSE {Call(h, boff, "none") :
                     h \in IF b = "none" THEN {"none"}
                           ELSE {"VPWrite", "GPWrite", "EPWrite"}}

(* MMIO routing and decode composed: every guest MMIO access the bus hands *)
(* to a device reaches the register that device's layout places at the     *)
(* address's offset into the device's BAR: the OHCI register of the spec's *)
(* layout, the APU block handler at the offset into its block.  It checks  *)
(* the bus's key-order BAR scan and base subtraction together with the     *)
(* OHCI port-block bound and register switch and the APU's block chain.   *)
MmioReachesLayoutRegister ==
  [][reached' # reached /\ reached'.dev # NoRoute =>
       reached'.at \in LayoutTarget(reached'.dev, reached'.op,
                                    reached'.addr - Bars[reached'.dev].mem.base)]_allVars

=============================================================================
