--------------------------- MODULE OhciRegisters ---------------------------
(***************************************************************************)
(* The register bank of USBOHCIDevice (pci/usb_ohci_pci.cpp): the address  *)
(* decode of PCIMMIORead and PCIMMIOWrite, and the spec's register layout  *)
(* it is checked against.  The decode depends only on m_numPorts and the   *)
(* offset, so it is a set of operators that OhciController (the register  *)
(* writes) and PciMmio (guest accesses through the PCI bus) share.        *)
(***************************************************************************)
EXTENDS Naturals

\* RegisterBAR(0, 4096, PCI_BAR_TYPE_MEMORY) in Init (71).
OHCI_BAR_SIZE == 4096

(***************************************************************************)
(* The register bank behind BAR 0 (4096 bytes, Init line 71).  A decoded   *)
(* access is a register name and, for HcRhPortStatus, the port index;      *)
(* NoReg is an access the code drops: a read of it returns 0xffffffff.     *)
(***************************************************************************)
NoReg == [reg |-> "none", port |-> 0]
Reg(name) == [reg |-> name, port |-> 0]
PortReg(k) == [reg |-> "HcRhPortStatus", port |-> k]

\* The case labels of the switch on addr >> 2: 0-20 the OHCI registers,
\* 24-27 the PXA27x ones.
OhciRegisterNames ==
  <<"HcRevision", "HcControl", "HcCommandStatus", "HcInterruptStatus",
    "HcInterruptEnable", "HcInterruptDisable", "HcHCCA", "HcPeriodCurrentED",
    "HcControlHeadED", "HcControlCurrentED", "HcBulkHeadED",
    "HcBulkCurrentED", "HcDoneHead", "HcFmInterval", "HcFmRemaining",
    "HcFmNumber", "HcPeriodicStart", "HcLSThreshold", "HcRhDescriptorA",
    "HcRhDescriptorB", "HcRhStatus">>
PxaRegisterNames ==
  [k \in 24..27 |-> <<"HcStatus", "HcHReset", "HcHInterruptEnable",
                      "HcHInterruptTest">>[k - 23]]

\* Fault-injection variant: the port block bound taken as inclusive.
InPortBlockInclusive(n, addr) == addr >= 84 /\ addr <= 84 + n * 4

\* addr >= 0x54 && addr < 0x54 + m_numPorts * 4 (509, 627).
InPortBlock(n, addr) == addr >= 84 /\ addr < 84 + n * 4

\* PCIMMIORead (500-617) with m_numPorts = n: the register a read of addr
\* returns.  Unaligned and unexpected reads return 0xffffffff.
ReadRegister(n, addr) ==
  LET k == addr \div 4 IN
  CASE addr % 4 # 0         -> NoReg
    [] InPortBlock(n, addr) -> PortReg((addr - 84) \div 4)
    [] k \in 0..20          -> Reg(OhciRegisterNames[k + 1])
    [] k \in 24..27         -> Reg(PxaRegisterNames[k])
    [] OTHER                -> NoReg

\* PCIMMIOWrite (620-743) with m_numPorts = n: the register a write of
\* addr goes to.  The switch has no case for HcRevision (0), HcDoneHead
\* (12) or HcFmRemaining (14); its cases 7, 15 and 19 do nothing.
WriteRegister(n, addr) ==
  LET k == addr \div 4 IN
  CASE addr % 4 # 0         -> NoReg
    [] InPortBlock(n, addr) -> PortReg((addr - 84) \div 4)
    [] k \in 0..20 \ {0, 12, 14} -> Reg(OhciRegisterNames[k + 1])
    [] k \in 24..27         -> Reg(PxaRegisterNames[k])
    [] OTHER                -> NoReg

-----------------------------------------------------------------------------
(* The register bank of the spec (section 6): the 21 OHCI registers at    *)
(* their fixed offsets and n port-status registers from 0x54; any other    *)
(* offset is reserved.                                                     *)
SpecRegisterOffsets ==
  [HcRevision |-> 0, HcControl |-> 4, HcCommandStatus |-> 8,
   HcInterruptStatus |-> 12, HcInterruptEnable |-> 16,
   HcInterruptDisable |-> 20, HcHCCA |-> 24, HcPeriodCurrentED |-> 28,
   HcControlHeadED |-> 32, HcControlCurrentED |-> 36, HcBulkHeadED |-> 40,
   HcBulkCurrentED |-> 44, HcDoneHead |-> 48, HcFmInterval |-> 52,
   HcFmRemaining |-> 56, HcFmNumber |-> 60, HcPeriodicStart |-> 64,
   HcLSThreshold |-> 68, HcRhDescriptorA |-> 72, HcRhDescriptorB |-> 76,
   HcRhStatus |-> 80]
SpecLayout(n, addr) ==
  LET named == {r \in DOMAIN SpecRegisterOffsets : SpecRegisterOffsets[r] = addr}
  IN  CASE named # {}                  -> Reg(CHOOSE r \in named : TRUE)
        [] addr - 84 \in 0..(4 * n - 1) /\ addr % 4 = 0 -> PortReg((addr - 84) \div 4)
        [] OTHER                       -> NoReg
\* Registers the OHCI specification makes read-only to the driver.
ReadOnlyRegisters ==
  {"HcRevision", "HcPeriodCurrentED", "HcDoneHead", "HcFmRemaining", "HcFmNumber"}

\* The registers an access of op ("read" or "write") at addr may reach
\* under the spec's layout: the register laid out there (a write to a
\* read-only one may be dropped), or, at a reserved offset, no register
\* or one of the vendor's PXA27x registers.
LayoutAllows(n, addr, op) ==
  LET s == SpecLayout(n, addr) IN
  IF s = NoReg THEN {NoReg} \cup {Reg(PxaRegisterNames[k]) : k \in 24..27}
  ELSE IF op = "write" /\ s.reg \in ReadOnlyRegisters THEN {s, NoReg} ELSE {s}

=============================================================================
