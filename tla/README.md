# TLA+ models of the OpenXBOX USB / OHCI / PCI subsystem

This directory holds TLA+ specifications of the USB host side of OpenXBOX, under
`src/src/core/openxbox/hw/`. It also holds the TLC configurations that check them.
Each definition is translated from the C++ source. `PROJECT.json` maps every
definition to the source lines it models.

## The system

The parts below are described in the order a guest access reaches them.

1. **PCI bus** (`bus/pcibus.cpp`) does two things:
   - It latches the config address through port 0xCF8 and routes config-data
     accesses to the device at that address.
   - It routes IO and MMIO accesses to the first device whose BAR contains the
     address, scanning in key order.
2. **USBPCIDevice** (`pci/usb_pci.cpp`) is the PCI function. It forwards BAR 0
   MMIO to its host controller. It also holds the generic USB core:
   - port registration, attach, detach and reset;
   - packet setup, dispatch and queueing (`USB_HandlePacket`, `USB_QueueOne`,
     `USB_CancelPacket`);
   - the endpoint-0 control pipe (`USB_ProcessOne`, `USB_DoTokenSetup`,
     `DoTokenIn`, `DoTokenOut`).
3. **USBOHCIDevice** (`pci/usb_ohci_pci.cpp`) is the OHCI host controller. It has:
   - the operational registers (`PCIMMIOWrite`) and the interrupt registers,
     with `UpdateInterrupt` driving the IRQ line;
   - the resets (`HardReset`, `SoftReset`, `RootHubReset`);
   - the root-hub ports (`SetPortStatus`, `SetHubStatus`, `PortPower`);
   - the frame engine. The one-shot end-of-frame timer calls `OnFrameBoundary`.
     Each call walks the periodic, control and bulk ED lists in guest memory
     (`ProcessLists`, `ServiceEndpointList`). It then updates the frame number,
     the done queue and `m_doneCount`, writes the HCCA back and re-arms the
     timer (`SignalStartOfFrame`).
     On an unrecoverable error the controller stops through `Die`.
4. **USBDevice / USBPort** (`usb/usb.cpp`) hold the attached flag and the
   reset to the DEFAULT state.
5. **Hub peripheral** (`ohci/ohci_hub.cpp`) is a USB hub ported from QEMU. It
   claims a root-hub port for a player, keeps its own downstream port
   registers and answers the hub class requests. It is written against a
   USB core API this repository does not declare, and nothing constructs it.
   As a device on its own port it goes through the `USBPCIDevice` lifecycle
   (`USB_Attach`, `USB_Detach`, `USB_DeviceReset`), and `USB_FindDevice`
   finds it, or a device behind one of its enabled ports, by address.
6. **NV APU** (`pci/nvapu.cpp`) registers a 512 KiB memory BAR whose VP, GP
   and EP register blocks are logging stubs, apart from a FIFO status read
   and a timer read. The TV encoder, ATA drive and kernel stubs only log.

The parts interact in these ways:
- Guest register reads and writes arrive as MMIO through the bus, which
  hands each one to the device whose BAR holds the address, at the offset
  into the BAR, and the device decodes the offset.
- The frame timer fires concurrently with those writes. In the model, every
  step is one atomic handler, interleaved with every other.
- Hot-plug (`USB_Attach`/`USB_Detach`) changes the root-hub port registers.
- A packet reaches the control pipe of the device behind a port.

## Modules

| module | models | state | actions |
|---|---|---|---|
| `UsbControlPipe` | the endpoint-0 control pipe of one device (`usb_pci.cpp` 279-487) | `SetupState`, `SetupLength`, `SetupIndex`, the request that opened the data stage, and the last result | `USB_DoTokenSetup` (IN/OUT branches), `DoTokenIn`, `DoTokenOut`, inside `USB_ProcessOne`. The device's control handler is a nondeterministic reply: a length, a STALL or ASYNC. |
| `ControlTransfer` | what a control pipe promises, in whole transfers (USB 2.0 8.5.3): SETUP accepted or refused, a data stage moved in order, a status stage, an abort | `phase`, `dir`, `length`, `moved` | `Setup`, `Transfer`, `EndEmptyData`, `Finish`, `Abort` |
| `UsbPacketQueue` | packet dispatch on one endpoint (`usb_pci.cpp` 193-268, 537-545) | per-packet `state`, `status`, `stream`; the endpoint `queue` (a sequence) and `pipeline` | `USB_PacketSetup`, `USB_HandlePacket` (NODEV, process now or queue, every device result), `USB_CancelPacket` |
| `PciBus` | `PCIBus` (`bus/pcibus.cpp`) | `devices` (m_Devices), `inited`, `configAddr` (the 0xCF8 latch), each device's config bytes, the last config read, the last IO/MMIO access and its route, `resetLog` | `ConnectDevice`, `IOWriteConfigAddress`, `IOWriteConfigData`, `IOReadConfigData`, `DeviceAccess` (IO and MMIO BAR scans), `Reset` |
| `UsbHub` | the hub peripheral (`ohci/ohci_hub.cpp`) and the device lifecycle of `pci/usb_pci.cpp` (124-175) applied to it | the claimed root-hub port, `active`, `wPortStatus`/`wPortChange` per port, the downstream device state and address, the hub's own device state (`hubState`) and address, the last request and its result | `HubInit` (claim, init, release on failure), `USB_AttachHub`, `USB_DetachHub`, `USB_DeviceResetHub` (which runs `UsbHub_HandleReset`), `UsbHub_HandleControl` (hub class requests, guarded by `USB_FindDevice` reaching the hub), `SetAddress`, `UsbHub_Attach`, `UsbHub_Detach`, `UsbHub_Wakeup` |
| `OhciInterrupts` | `m_intrStatus`, `m_intr`, the IRQ level; `SetInterrupt`, `UpdateInterrupt`, writes to HcInterruptStatus, Enable and Disable | `intrStatus`, `intr`, `irq` | the three register writes, as operators the controller's `PCIMMIOWrite` calls |
| `OhciEdList` | `ServiceEndpointList` as a RECURSIVE operator over a guest-memory snapshot, plus a reference definition of a corrupt list | none (operators) | none |
| `OhciEdListCheck` | the inputs of the walk (every memory of the EDs, list head and pending TD) and the reference predicates it is checked against | none (operators) | none |
| `OhciRegisters` | the register bank of `USBOHCIDevice`: BAR size, the address decode of `PCIMMIORead`/`PCIMMIOWrite` (`ReadRegister`, `WriteRegister`), and the spec's register layout | none (operators) | none |
| `NvApu` | `NVAPUDevice` (`pci/nvapu.cpp`): BAR size, the block dispatch of `PCIMMIORead`/`PCIMMIOWrite`, `VPRead`, the timer read | none (operators; the device keeps no state) | none |
| `PciMmio` | the bus composed with USB0 and the APU: EXTENDS `PciBus`, `OhciRegisters`, `NvApu` | PciBus's state and `reached`, the last MMIO access and the handler or register it reached | `MMIORead`, `MMIOWrite` (the bus scan, then the device's decode), and PciBus's config and reset actions |
| `OhciController` | the host controller; EXTENDS `OhciInterrupts`, `OhciEdList` and `OhciRegisters` | `ctl`, the previous frame's list-enable bits, `status`, `hcca`, control/bulk heads, `timer` (EOF timer armed), `frameNumber`, `done`/`doneCount`, `asyncTd`, PCI parity bit, `aborted`, `ports`, `rhstatus`, `dev` (per-port device: none/attached/default) | `OnFrameBoundary`, `PCIMMIOWrite` (a write at a BAR offset, decoded by `WriteRegister` and dispatched to SetCtl, CommandStatus, the interrupt registers, head/HCCA pointers, port status, hub status or HcHReset), `Reset`, `DeviceAttach`, `DeviceDetach`. `ReadRegister` and `WriteRegister` are the address decode of `PCIMMIORead` and `PCIMMIOWrite`. |
| `MC_*` | model values and small sets for TLC | | |

The abstractions are as follows:
- A register is the set of its bits that some code path reads.
- Guest memory for a frame is chosen from `FrameMemories`. The guest may
  rewrite EDs between frames, so each frame may see any of them.
- The result of `ohci_service_td` is an input: NAK, async, or retire with a
  delay-interrupt value. The function is called but not defined in the
  repository.
- `OHCI_Attach`/`OHCI_Detach`, a PCI device's config space and its BARs
  (`GetIOBar`/`GetMMIOBar`) are modelled from the spec. The repository
  declares them but does not define them.
- The device behind a packet queue, a hub port or a control pipe is an
  external collaborator: its reply is a nondeterministic choice.
- Fault-injection variants (`...NoUpdate`, `...OffByOne`, and so on) are
  defined just before the definitions they vary. They are used only to show
  that each property can detect a plausible slip in the code.

### Refinement

`UsbControlPipe` instantiates `ControlTransfer` as `CT`. The mapping reads the
abstract phase off `SetupState` of an accepted request (DATA is `data`, ACK
is `status`, anything else `idle`). Direction, length and cursor come from
the SETUP buffer, `SetupLength` and `SetupIndex`, and are fixed to defaults
when no transfer is open. `RefinesControlTransfer == CT!Spec` is checked in
the `control_wellbehaved` run. Every token step of the pipe is one abstract
step or a stutter. A stalled SETUP is an abstract `Refuse`. A zero-length IN
token at the end of a data stage is `EndEmptyData`. The refinement also
holds under the arbitrary host of `UsbControlPipe_overflow.cfg`. The mapping
shows the stale stage left by a rejected SETUP as `idle`, so that stage's
tokens are abstract stutters. The refinement therefore says nothing about
the stale stage; `DataCursorInBuffer` in the `control_overflow` run does.

## Runs

| run | cfg | expect | what it shows |
|---|---|---|---|
| control_wellbehaved | `UsbControlPipe_wellbehaved.cfg` | pass | With a host that restarts with SETUP after a STALL, every status stage follows the whole data stage and every data stage belongs to an accepted request. The pipe also refines `ControlTransfer`. |
| control_overflow | `UsbControlPipe_overflow.cfg` | violation | The pipe is in a data stage when a SETUP arrives that the handler stalls. The SETUP still overwrites `SetupLength` (line 372), and the stale stage copies past `data_buf`. |
| ohci_frames | `OhciController_frames.cfg` | pass | See the list below. |
| ohci_roothub | `OhciController_roothub.cfg` | pass | With two ports, hot-plug and every port and hub write, a connected or enabled port has a device, and no interrupt is lost. The register decode of reads and writes agrees with the spec's layout for every port count 1..15 and every offset of the 4096-byte BAR. |
| ohci_poweroff | `OhciController_poweroff.cfg` | violation | `PortPower(false)` leaves PES set, so the port is enabled but not connected. |
| ohci_softreset_irq | `OhciController_softreset_irq.cfg` | violation | `SoftReset` clears the interrupt registers and leaves the IRQ line asserted. |
| ohci_liveness | `OhciController_liveness.cfg` | pass | Under fairness of the EOF timer alone, an armed timer always ends its frame or is disarmed, whatever the guest writes and whichever frame dies. The same run checks the ED-list walk against its reference for every memory of three EDs, every head and every pending TD: the walk dies exactly on an unreadable pointer, a cycle or too many EDs, and cancels the async packet exactly when the packet's ED is paused. The walk depends only on its inputs, so each check is a constant TLC evaluates once; it is stated as an action property (`[][check]_vars`) that every step must satisfy. The parameters of `ServiceEndpointList` are named apart from the controller's variables (`asyncTd`, `done`, `doneCount`). A parameter with a variable's name would make TLC treat the check as state-level and re-evaluate it in every state. |
| ohci_hubpower_rhsc | `OhciController_hubpower_rhsc.cfg` | violation | A device is attached, the guest clears RHSC, then writes LPS to HcRhStatus. `SetHubStatus` powers the ports off and the port loses CCS, but RHSC is raised only when `m_rhstatus` itself changed, so the change is not signalled. |
| packetqueue | `UsbPacketQueue.cfg` | pass | Three packets on one endpoint, pipelined or not, with streams, every device result and cancellation. The queue holds exactly the packets in flight, each once. A non-stream packet never completes while another is in flight. |
| pcibus | `PciBus.cfg` (module `MC_PciBus`, spec `PciMmioSpec`) | pass | USB0 and the APU on three bus/slot/function triples. Config accesses through 0xCF8/0xCFC reach exactly the addressed device and byte. An MMIO access the bus routes to a device reaches the OHCI register that the spec's layout places at that offset of the BAR. For the APU it reaches the block handler at the offset into its block: the VP FIFO status reads as empty, and 0x200C outside the blocks reads the timer. |
| hub | `UsbHub.cfg` | pass | A two-port hub claimed for any player value, with a too-deep chain, hot-plug, wakeup, hub resets and every class request. The hub is also attached, detached and reset as a device, and SET_ADDRESS gives it and its downstream devices addresses 0 or 1. An enabled port always has a connected device, across port resets, detaches and hub resets. |
| hub_clearchange | `UsbHub_clearchange.cfg` | violation | `ClearPortFeature` falls to the STALL default, so the guest can never acknowledge a port change. |

The `ohci_frames` run covers frames over lists that are idle, active, paused,
cyclic or unreadable, with RAM, ROM and unreadable HCCA. It checks that:
- no interrupt is lost;
- the `abort()` in the done latch is unreachable;
- the frame number moves by one and never while UE is latched.

The violation runs back the findings in `PROJECT.json`:
- a code bug in the control pipe (stale SETUP state, overflow of `data_buf`);
- a code bug in `SoftReset` (stale IRQ level);
- a divergence in `PortPower` from the spec;
- a divergence in `SetHubStatus` from the spec (LPS/LPSC change ports without RHSC);
- a code bug in the hub (no `ClearPortFeature`).

### Bounds

- **Control pipe:** packet sizes are {0,1,2} and the buffer is small. A data
  stage then takes several tokens, and a request can be shorter, equal to or
  longer than the reply. Those are the three cases of the clamp and of the
  cursor.
- **ED walk:**
  - Three EDs with `ED_LINK_LIMIT = 2` cover a list under, at and over the
    limit.
  - Cycles of one, two and three EDs are possible.
  - `BadAddr` stands for every unreadable address.
- **Controller:**
  - `FrameNumberMod = 4` stands for 2^16. The property only depends on
    wrap-around.
  - There are two EDs and one TD.
  - Five frame memories cover idle, active, paused, cyclic and unreadable lists.
  - The three HCCA kinds are writable, read-only and unreadable.
  - Two ports are used in the root-hub run and none in the frames run. The two
    concerns touch only through `intrStatus`, and each run keeps the
    interrupt registers.
  - The liveness run uses one list-enable command write and one head, so that
    the behaviour graph stays small enough for the fairness check.
- **Packet queue:** three packets let one packet be queued behind two others,
  which is the smallest case in which a wrong cancel removes a packet that
  is not the head, and in which order between two earlier packets matters.
- **PCI bus:** two devices over three triples give two functions of one slot
  and a second slot. Two config bytes in different dwords and unaligned
  register numbers exercise the `& 0xFC` mask. The devices are USB0 (4
  ports, BAR at 0xFED00000) and the APU (BAR at 0xFE800000); addresses are
  offsets from 0xFE000000 because TLC integers are signed 32-bit. Five MMIO
  addresses: the OHCI offset just past the port block (0x64) and the first
  address past its BAR, the APU timer at 0x200C, the VP FIFO status, and
  the first GP address, which is also the end of VP. Each is a boundary of
  a bound in the code. `APU_*_BASE/SIZE` are not in the repository; the
  model uses disjoint 64 KiB blocks with VP and GP adjacent. No device has
  an IO BAR, as in the code, so the run makes no IO accesses besides the
  config ports; IO routing uses the same `BarScan` as MMIO.
- **Hub:** two downstream ports, the player values 0..5 (both invalid ends
  and all four valid ones) and hub counts 0 and 5 (the depth limit). Control
  requests are a fixed set covering every case of the request switch with
  valid and invalid port indices 0..3. Two addresses (0, the address after
  a reset, and 1) are enough for two devices to share an address, or for a
  device to be found at an address another device gave up. The last request
  and its result are a history that no guard reads, so the run's `VIEW`
  leaves them out of the state fingerprint.
- **Register decode:** the decode is a function of the port count and the
  offset, so the roothub run checks it for every port count from 1 to 15
  (the OHCI limit of the NDP field) and every offset of BAR 0. The guest
  writes in the controller runs go to the offsets of the registers each run
  exercises, and to HcHReset at 0x64.

### Fairness

Safety properties assume no fairness. `FramesKeepComing` assumes weak
fairness of `OnFrameBoundary` only: `FairSpec == Spec /\ WF_vars(OnFrameBoundary)`.
The code justifies it: the EOF timer is a one-shot timer, and once
`SignalStartOfFrame` or `StartBus` arms it, it fires unless `Die`, a state
change or a reset stops it. No fairness is assumed for guest writes or
hot-plug. The liveness run checks `FairSpecUnfolded`, the same formula with
`WF_vars` written out by its definition (always eventually not enabled, or
always eventually an `OnFrameBoundary` step) and `FrameTimerArmed` for the
enabling condition. The two agree because the callback's guard is
`FrameTimerArmed` and each of its branches changes the timer or the frame
number. TLC re-evaluates shared subexpressions inside `ENABLED`, which makes
the recursive list walk exponential there, so `FairSpec` itself is not run.

## Not modelled

- Register reads change no state. Their address decode is modelled; the
  values they return are not. The PPS OR-in at line 511 is listed as a
  hazard.
- `GetFrameRemaining` and `SetFrameInterval` are timing only.
- The iso path and `ohci_service_td` are not defined in the repository.
- `USBPacket::Cancel` (`usb/usb.cpp`) belongs to the `usb.h` API that
  `USBOHCIDevice` uses. The controller calls it whenever it drops
  `m_async_td` (lines 53, 144, 359, 445), and `OhciController` models each
  call as clearing `asyncTd`. The endpoint queue it pops is filled by
  `ohci_service_td`, which is not in the repository, so the queue itself is
  not modelled. The pop takes the head rather than the cancelled packet,
  which is listed as a hazard.
- The halted branch of `USB_HandlePacket` is dead: nothing sets `Halted`.
- `USBPCIDevice::PCIMMIORead`/`PCIMMIOWrite` forward to the `OHCI` class,
  which `ohci.h` declares but the repository does not define.
- `USB_PortReset` has no caller.
- There is no code in the repository that completes an ASYNC or QUEUED
  packet, so packets in flight leave only by cancellation.
- Partial-width writes to 0xCF8 (the latch copies four bytes whatever the
  size) and PCI configuration space beyond the bytes the guest writes.
- The hub's standard requests, descriptors and data path forward to code
  outside the repository. The hub is modelled on its own, because nothing
  wires it to `USBPCIDevice`.
- The TV encoder, dummy ATA drive and kernel stubs have no behaviour beyond
  logging. The APU's IO handlers only log and are unreachable (no IO BAR).
  Its MMIO write routes GP and EP writes to `VPWrite` (nvapu.cpp 111-119);
  the model keeps the handler name, but since all three only log, no
  property tells them apart. An unhandled read leaves `*value` unwritten
  (`Undefined` in the model); this is listed as a hazard. `GetAPUTime`'s
  value is a token: its cast of a double above 2^32 to `uint32_t` is
  undefined behaviour, but nothing in the repository reads the value.

Some code behaviours are not stated as properties, because each would
restate one guard or one assignment of the action that performs it:
- `Die` stopping the timer;
- the duplicate check before `Init` in `ConnectDevice`;
- `HubInit` claiming and releasing its port in one call;
- the hub reset clearing ENABLE;
- the packet-lifecycle asserts, which the model takes as guards;
- BAR routing between the two devices, whose BARs are disjoint, so the key
  order never decides.

The hazards these behaviours carry are listed with a note saying why no
property covers them.

## Plan for later work

1. **Composition:** the packet queue under the OHCI TD service (blocked on
   `ohci_service_td`, which is not in the repository), and `PciMmio`'s
   register accesses driving `OhciController`'s register actions; today
   they share the decode in `OhciRegisters` but run separately.
2. Port registration in `usb_pci.cpp` against the port table.
3. A larger liveness instance, with more guest writes, once the frame
   walk can be bound more cheaply.
