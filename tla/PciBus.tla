------------------------------ MODULE PciBus ------------------------------
(***************************************************************************)
(* PCIBus (bus/pcibus.cpp): the device table keyed by PCI_DEVID, the       *)
(* configuration-address latch at port 0xCF8, configuration data at ports  *)
(* 0xCFC-0xCFF, the BAR scans of IORead/IOWrite/MMIORead/MMIOWrite, and    *)
(* Reset.                                                                  *)
(*                                                                         *)
(* The latched address is kept as the 32-bit value the guest wrote,        *)
(* split into its enable bit and its low 31 bits (TLC integers are signed  *)
(* 32-bit).  The fields the code reads are taken out of it the way the     *)
(* PCIConfigAddressRegister bit-field layout does.  A device's             *)
(* configuration space (PCIDevice::ReadConfig/WriteConfig) and its BARs    *)
(* (GetIOBar/GetMMIOBar) are code outside this repository and are          *)
(* modelled from the spec: a byte-addressed store and fixed ranges.        *)
(***************************************************************************)
EXTENDS Naturals, Sequences, SequencesExt

CONSTANTS
  Devs,          \* PCIDevice objects the machine assembly creates
  Triples,       \* (bus, slot, function) addresses the assembly and guest use
  ConfigBytes,   \* configuration-space byte addresses the guest accesses
  Values,        \* configuration byte values the guest writes
  ResetValue,    \* a configuration byte before any write
  Bars,          \* Bars[d][kind] = [base, size]: d's IO and memory BAR
  Addrs          \* IO ports and MMIO addresses the guest accesses

PORT_PCI_CONFIG_ADDRESS == 3320   \* 0xCF8
PORT_PCI_CONFIG_DATA == 3324      \* 0xCFC
AllOnes == "0xFFFFFFFF"           \* an unpopulated slot's config read
NoRoute == "unrouted"
NoAccess == [kind |-> "none", addr |-> 0, to |-> NoRoute, offset |-> 0]
ConfigSpace == 0..11               \* the bytes a decoded access can name

\* PCI_DEVFN and PCI_DEVID (pcibus.h 14, 19).
PCI_DEVFN(slot, func) == (slot % 32) * 8 + (func % 8)
PCI_DEVID(bus, devfn) == bus * 256 + devfn

\* The 32-bit value a guest driver writes to 0xCF8 to select register reg
\* of a device, as the PCI local-bus specification lays it out.
EncodeConfigAddress(t, reg) ==
  [enable |-> 1, low |-> t.bus * 2^16 + t.slot * 2^11 + t.func * 2^8 + reg]

\* The fields of PCIConfigAddressRegister (pcibus.h 23-30) that memcpy
\* lays over the written value: register 0-7, function 8-10, device 11-15,
\* bus 16-23.
RegisterNumber(a) == a.low % 256
\* Fault-injection variant: the function field read from the device bits.
FunctionNumberWrongField(a) == (a.low \div 2^11) % 8
FunctionNumber(a) == (a.low \div 2^8) % 8
DeviceNumber(a) == (a.low \div 2^11) % 32
BusNumber(a) == (a.low \div 2^16) % 256

VARIABLES
  devices,      \* m_Devices: device id -> device
  inited,       \* devices whose Init() ConnectDevice has called
  configAddr,   \* m_configAddressRegister
  config,       \* each device's configuration space (spec-modelled)
  lastRead,     \* value the last configuration-data read returned
  lastAccess,   \* the last IO/MMIO access and where the bus sent it
  resetLog,     \* devices in the order the last Reset reset them
  selected,     \* history: the guest's intent behind configAddr
  written       \* history: last value the guest meant for (triple, byte)

vars == <<devices, inited, configAddr, config, lastRead, lastAccess,
          resetLog, selected, written>>

Keys == {PCI_DEVID(t.bus, PCI_DEVFN(t.slot, t.func)) : t \in Triples}
\* Fault-injection variant: the arguments of PCI_DEVID swapped.
KeyOfSwapped(t) == PCI_DEVID(PCI_DEVFN(t.slot, t.func), t.bus)
\* The deviceId a caller passes to ConnectDevice for a triple.
KeyOf(t) == PCI_DEVID(t.bus, PCI_DEVFN(t.slot, t.func))
Accesses == [kind : {"io", "mem"}, addr : Addrs, to : Devs \cup {NoRoute},
             offset : Nat]

TypeOK ==
  /\ DOMAIN devices \subseteq Keys /\ \A k \in DOMAIN devices : devices[k] \in Devs
  /\ inited \subseteq Devs
  /\ configAddr \in [enable : {0, 1}, low : Nat]
  /\ config \in [Devs -> [ConfigSpace -> Values \cup {ResetValue}]]
  /\ lastRead \in Values \cup {ResetValue, AllOnes}
  /\ lastAccess \in Accesses \cup {NoAccess}
  /\ resetLog \in Seq(Devs)

Init ==
  /\ devices = << >>
  /\ inited = {}
  /\ configAddr = [enable |-> 0, low |-> 0]
  /\ config = [d \in Devs |-> [b \in ConfigSpace |-> ResetValue]]
  /\ lastRead = ResetValue
  /\ lastAccess = NoAccess
  /\ resetLog = << >>
  /\ selected = [t |-> CHOOSE t \in Triples : TRUE, reg |-> 0, valid |-> FALSE]
  /\ written = [t \in Triples |-> [b \in ConfigBytes |-> ResetValue]]

\* The connected devices in the order std::map iterates them: by key.
KeyOrder == [i \in 1..Cardinality(DOMAIN devices) |->
               devices[SetToSortSeq(DOMAIN devices, <)[i]]]

\* ConnectDevice (19-27): a second device for a used id is refused
\* before it is initialised.
ConnectDevice(t, d) ==
  /\ d \notin inited
  /\ IF KeyOf(t) \in DOMAIN devices
       THEN UNCHANGED <<devices, inited>>
       ELSE /\ devices' = devices @@ (KeyOf(t) :> d)
            /\ inited' = inited \cup {d}
  /\ UNCHANGED <<configAddr, config, lastRead, lastAccess, resetLog,
                 selected, written>>

\* IOWrite to 0xCF8 (123-133) calls IOWriteConfigAddress (29-31), which
\* copies the whole value into the bit-field register.
IOWriteConfigAddress(t, reg) ==
  /\ configAddr' = EncodeConfigAddress(t, reg)
  /\ selected' = [t |-> t, reg |-> reg, valid |-> TRUE]
  /\ UNCHANGED <<devices, inited, config, lastRead, lastAccess, resetLog, written>>

\* The device the latched address selects and the byte it names
\* (43-50, 78-84): PCI_DEVID(bus, PCI_DEVFN(device, function)) and
\* (registerNumber & PCI_CONFIG_REGISTER_MASK) + regOffset.
SelectedKey == PCI_DEVID(BusNumber(configAddr),
                         PCI_DEVFN(DeviceNumber(configAddr), FunctionNumber(configAddr)))
\* Fault-injection variant: PCI_CONFIG_REGISTER_MASK is not applied.
SelectedByteUnmasked(off) == RegisterNumber(configAddr) + off
SelectedByte(off) == (RegisterNumber(configAddr) \div 4) * 4 + off

\* IOWrite to 0xCFC+off (134-139), IOWriteConfigData (67-97): forwarded
\* to the selected device's WriteConfig, or dropped for an empty slot.
IOWriteConfigData(off, v) ==
  /\ selected.valid
  /\ (4 * (selected.reg \div 4) + off) \in ConfigBytes
  /\ IF SelectedKey \in DOMAIN devices
       THEN config' = [config EXCEPT ![devices[SelectedKey]][SelectedByte(off)] = v]
       ELSE UNCHANGED config
  /\ written' = IF KeyOf(selected.t) \in DOMAIN devices
                THEN [written EXCEPT ![selected.t][4 * (selected.reg \div 4) + off] = v]
                ELSE written
  /\ UNCHANGED <<devices, inited, configAddr, lastRead, lastAccess, resetLog, selected>>

\* IORead of 0xCFC+off (101-106), IOReadConfigData (33-65).
IOReadConfigData(off) ==
  /\ selected.valid
  /\ (4 * (selected.reg \div 4) + off) \in ConfigBytes
  /\ lastRead' = IF SelectedKey \in DOMAIN devices
                   THEN config[devices[SelectedKey]][SelectedByte(off)]
                   ELSE AllOnes
  /\ UNCHANGED <<devices, inited, configAddr, config, lastAccess, resetLog,
                 selected, written>>

\* PCIDevice::GetIOBar / GetMMIOBar, modelled from the spec: the BAR of
\* the given kind covers [base, base + size).
BarContains(d, kind, a) ==
  Bars[d][kind].base <= a /\ a < Bars[d][kind].base + Bars[d][kind].size

\* The BAR scan of IORead/IOWrite (107-115, 140-148) and
\* MMIORead/MMIOWrite (154-179): the first device in key order whose BAR
\* holds the address gets the access at address - base.
BarScan(kind, a) ==
  LET hits == {i \in DOMAIN KeyOrder : BarContains(KeyOrder[i], kind, a)}
  IN IF hits = {} THEN [kind |-> kind, addr |-> a, to |-> NoRoute, offset |-> 0]
     ELSE LET d == KeyOrder[Min(hits)]
          IN [kind |-> kind, addr |-> a, to |-> d, offset |-> a - Bars[d][kind].base]

\* A non-configuration IO or MMIO access, read or write: the routing is
\* the same, the device handler's effect is outside the bus.
DeviceAccess(kind, a) ==
  /\ kind = "io" => a \notin PORT_PCI_CONFIG_ADDRESS..PORT_PCI_CONFIG_DATA + 3
  /\ lastAccess' = BarScan(kind, a)
  /\ UNCHANGED <<devices, inited, configAddr, config, lastRead, resetLog,
                 selected, written>>

\* Reset (181-185): every connected device is reset, in key order.
Reset ==
  /\ resetLog' = KeyOrder
  /\ UNCHANGED <<devices, inited, configAddr, config, lastRead, lastAccess,
                 selected, written>>

Next ==
  \/ \E t \in Triples, d \in Devs : ConnectDevice(t, d)
  \/ \E t \in Triples, reg \in 0..255 :
       (4 * (reg \div 4)) \in {4 * (b \div 4) : b \in ConfigBytes}
       /\ reg % 4 \in {0, 1} /\ IOWriteConfigAddress(t, reg)
  \/ \E off \in 0..3, v \in Values : IOWriteConfigData(off, v)
  \/ \E off \in 0..3 : IOReadConfigData(off)
  \/ \E kind \in {"io", "mem"}, a \in Addrs : DeviceAccess(kind, a)
  \/ Reset

Spec == Init /\ [][Next]_vars

-----------------------------------------------------------------------------
\* The device connected for a (bus, slot, function) triple, if any.
Connected(t) == KeyOf(t) \in DOMAIN devices

(* Configuration-space routing (spec, testable property 1): every byte of  *)
(* every device's configuration space holds exactly what the guest last    *)
(* wrote to that byte of that device's (bus, slot, function) while it was  *)
(* connected; writes to an empty slot, and bytes the guest never wrote,    *)
(* change nothing.  This checks the bit-field layout memcpy'd from 0xCF8,  *)
(* PCI_DEVID/PCI_DEVFN and the register mask against the guest's encoding. *)
ConfigSpaceMatchesGuestWrites ==
  \A d \in Devs, b \in ConfigSpace :
    config[d][b] =
      IF \E t \in Triples : Connected(t) /\ devices[KeyOf(t)] = d /\ b \in ConfigBytes
        THEN written[CHOOSE t \in Triples : Connected(t) /\ devices[KeyOf(t)] = d][b]
        ELSE ResetValue

=============================================================================
