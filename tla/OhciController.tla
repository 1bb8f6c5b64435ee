-------------------------- MODULE OhciController --------------------------
(***************************************************************************)
(* USBOHCIDevice, the OHCI host controller (src/core/openxbox/hw/pci/      *)
(* usb_ohci_pci.cpp): the operational registers, the end-of-frame timer,   *)
(* the per-frame work of OnFrameBoundary, Die, the resets and the root-hub *)
(* ports.  Each action is one guest MMIO write (PCIMMIOWrite) or one timer *)
(* callback, run to completion on the emulation thread.                    *)
(*                                                                         *)
(* Guest memory is not part of the state: the guest can rewrite any ED     *)
(* between two frames, so each frame reads a snapshot from FrameMemories.  *)
(* The HCCA address is one of three kinds: RAM, read-only memory (the read *)
(* works, the write-back fails) or BadAddr (the read fails).               *)
(***************************************************************************)
EXTENDS OhciInterrupts, OhciEdList, OhciRegisters

CONSTANTS
  Ports,             \* root-hub ports, m_rhport[0 .. m_numPorts-1]
  FrameNumberMod,    \* m_frameNumber wraps at this value (0x10000)
  ControlWrites,     \* values the guest writes to HcControl
  CommandWrites,     \* values the guest writes to HcCommandStatus
  HeadWrites,        \* values the guest writes to HcControl/BulkHeadED
  HccaWrites,        \* values the guest writes to HcHCCA
  FrameMemories,     \* guest memory snapshots a frame may read
  PeriodicHeads,     \* hcca.intr[frameNumber & 0x1f] values
  PortWrites,        \* values the guest writes to HcRhPortStatus[i]
  HubWrites,         \* values the guest writes to HcRhStatus
  MmioOffsets,       \* BAR offsets the guest writes
  MaxRootPorts,      \* m_numPorts values the register decode is checked for
  MmioWindow         \* size of BAR 0

HccaRam == "HccaRam"
HccaRom == "HccaRom"

HcfsStates == {"RESET", "RESUME", "OPERATIONAL", "SUSPEND"}
ListBits == {"PLE", "CLE", "BLE"}           \* HcControl list enables
CtlValues == [hcfs : HcfsStates, lists : SUBSET ListBits]
SF == "SF"   WD == "WD"   UE == "UE"   RHSC == "RHSC"

ASSUME /\ {SF, WD, UE, RHSC} \subseteq IntrBits
       /\ ControlWrites \subseteq CtlValues
       /\ CommandWrites \subseteq SUBSET {"CLF", "BLF", "HCR"}
       /\ HeadWrites \subseteq Addrs
       /\ HccaWrites \subseteq {HccaRam, HccaRom, BadAddr}
       /\ FrameMemories \subseteq Memories
       /\ PeriodicHeads \subseteq Addrs
       /\ MmioOffsets \subseteq 0..(MmioWindow - 1)

VARIABLES
  ctl,          \* m_ctl: functional state (HCFS) and list enables
  oldCtl,       \* m_oldCtl & (CLE|BLE): list enables at the last frame
  status,       \* m_status: CLF/BLF (HCR never survives the write)
  hcca,         \* m_hcca
  ctrlHead,     \* m_ctrlHead
  bulkHead,     \* m_bulkHead
  timer,        \* m_eofTimer is armed (a one-shot InvokeLater)
  frameNumber,  \* m_frameNumber
  done,         \* m_done # 0: retired TDs wait in the done queue
  doneCount,    \* m_doneCount
  asyncTd,      \* m_async_td: TD of the pending asynchronous packet
  pciParity,    \* PCI_STATUS reads DETECTED_PARITY (written by Die)
  aborted,      \* the process ended in abort() (line 467)
  ports,        \* m_rhport[i].m_ctrl
  rhstatus,     \* m_rhstatus
  dev           \* state of the device behind each root-hub port

frameVars == <<ctl, oldCtl, status, hcca, ctrlHead, bulkHead, timer,
               frameNumber, done, doneCount, asyncTd, pciParity, aborted>>
hubVars == <<ports, rhstatus, dev>>
vars == <<frameVars, hubVars, intrVars>>

PortBits == {"CCS", "PES", "PSS", "PRS", "PPS",
             "CSC", "PESC", "PSSC", "OCIC", "PRSC"}
PortWTC == {"CSC", "PESC", "PSSC", "OCIC", "PRSC"}
DevStates == {"none", "attached", "default"}

TypeOK ==
  /\ IntrTypeOK
  /\ ctl \in CtlValues
  /\ oldCtl \subseteq {"CLE", "BLE"}
  /\ status \subseteq {"CLF", "BLF"}
  /\ hcca \in {HccaRam, HccaRom, BadAddr}
  /\ ctrlHead \in Addrs /\ bulkHead \in Addrs
  /\ timer \in BOOLEAN
  /\ frameNumber \in 0..(FrameNumberMod - 1)
  /\ done \in BOOLEAN
  /\ doneCount \in 0..DoneCountIdle
  /\ asyncTd \in TDs \cup {NoTD}
  /\ pciParity \in BOOLEAN /\ aborted \in BOOLEAN
  /\ ports \in [Ports -> SUBSET PortBits]
  /\ rhstatus \subseteq {"DRWE", "OCIC"}
  /\ dev \in [Ports -> DevStates]

\* Die (493-498): SetInterrupt(UE) on top of the bits the step already
\* raised, StopBus, and PCI_STATUS overwritten with DETECTED_PARITY.
Die(bits) ==
  /\ SetInterrupt(bits \cup {UE})
  /\ timer' = FALSE
  /\ pciParity' = TRUE

\* Fault-injection variant: SoftReset leaves m_doneCount alone.
SoftResetKeepsDoneCount ==
  /\ timer' = FALSE
  /\ ctl' = [hcfs |-> "SUSPEND", lists |-> {}]
  /\ oldCtl' = {} /\ status' = {}
  /\ intrStatus' = {} /\ intr' = {MIE}
  /\ hcca' = HccaRam /\ ctrlHead' = NULL /\ bulkHead' = NULL
  /\ done' = FALSE
  /\ frameNumber' = 0
  /\ UNCHANGED <<irq, doneCount, asyncTd, pciParity, aborted, hubVars>>

\* SoftReset (105-127): StopBus and the register defaults; the interrupt
\* registers are cleared without UpdateInterrupt and m_async_td is kept.
SoftReset ==
  /\ timer' = FALSE
  /\ ctl' = [hcfs |-> "SUSPEND", lists |-> {}]
  /\ oldCtl' = {} /\ status' = {}
  /\ intrStatus' = {} /\ intr' = {MIE}
  /\ hcca' = HccaRam /\ ctrlHead' = NULL /\ bulkHead' = NULL
  /\ done' = FALSE /\ doneCount' = DoneCountIdle
  /\ frameNumber' = 0
  /\ UNCHANGED <<irq, asyncTd, pciParity, aborted, hubVars>>

(***************************************************************************)
(* The per-frame work of OnFrameBoundary up to the UE check (434-456),     *)
(* threaded through a record w of the state the list walks change:         *)
(* guest memory, m_async_td, the done queue, m_status, and whether a walk  *)
(* called Die.                                                             *)
(***************************************************************************)
\* One ServiceEndpointList call on the state w.
ListStep(w, head, oc) ==
  LET r == ServiceEndpointList(w.mem, head, w.asyncTd, w.done, w.doneCount, oc)
  IN  [w EXCEPT !.mem = r.mem, !.asyncTd = r.asyncTd, !.done = r.done,
                !.doneCount = r.doneCount, !.died = @ \/ r.died,
                !.active = r.active]

\* ProcessLists (312-329): an enabled list with its filled flag is walked;
\* a walk that finds no active ED clears the flag.
ProcessLists(w, oc) ==
  LET Walk1(v, en, flag, head) ==
        IF en \in ctl.lists /\ flag \in v.status
          THEN LET r == ListStep(v, head, oc)
               IN  IF r.active THEN r
                   ELSE [r EXCEPT !.status = @ \ {flag}]
          ELSE v
  IN  Walk1(Walk1(w, "CLE", "CLF", ctrlHead), "BLE", "BLF", bulkHead)

HaltedByUnrecoverableError(w) == w.died \/ UE \in intrStatus

\* Fault-injection variant: m_doneCount decremented also from zero.
DecrementDoneCountUnguarded(dc) == IF dc # DoneCountIdle THEN dc - 1 ELSE dc

\* 476-478.
DecrementDoneCount(dc) ==
  IF dc # DoneCountIdle /\ dc # 0 THEN dc - 1 ELSE dc

\* The frame bookkeeping (458-486): frame number, done-queue latch with the
\* abort() on an empty done queue, SignalStartOfFrame (re-arm and SF), and
\* the HCCA write-back, which fails on read-only memory and then Dies.
EndOfFrame(w) ==
  LET latch == w.doneCount = 0 /\ WD \notin intrStatus
      bits  == {SF} \cup (IF latch THEN {WD} ELSE {})
  IN  /\ frameNumber' = (frameNumber + 1) % FrameNumberMod
      /\ aborted' = (latch /\ ~w.done)
      /\ done' = (w.done /\ ~latch)
      /\ doneCount' = DecrementDoneCount(IF latch THEN DoneCountIdle
                                                  ELSE w.doneCount)
      /\ IF hcca = HccaRom
           THEN Die(bits)
           ELSE /\ SetInterrupt(bits)
                /\ timer' = TRUE
                /\ UNCHANGED pciParity

\* The list walks of one frame (434-456) on guest memory m: the periodic
\* list, the cancel of m_async_td when CLE or BLE was just cleared, then
\* ProcessLists.
FrameWork(m, ph, oc) ==
  LET w0 == [mem |-> m, asyncTd |-> asyncTd, done |-> done,
             doneCount |-> doneCount, died |-> FALSE,
             active |-> FALSE, status |-> status]
      w1 == IF "PLE" \in ctl.lists THEN ListStep(w0, ph, oc) ELSE w0
      w2 == IF oldCtl \ ctl.lists # {}
              THEN [w1 EXCEPT !.asyncTd = NoTD] ELSE w1
  IN  ProcessLists(w2, oc)

\* Fault-injection variant: the EOF timer is re-armed before the UE check.
RearmOnUnrecoverableError(w) ==
  /\ done' = w.done /\ doneCount' = w.doneCount
  /\ UNCHANGED <<frameNumber, aborted>>
  /\ IF w.died THEN Die({})
     ELSE /\ timer' = TRUE
          /\ UNCHANGED <<intrVars, pciParity>>

\* The early return on UE (453-456): the one-shot timer has fired and is
\* not re-armed; a walk that called Die has already stopped the bus.
StopOnUnrecoverableError(w) ==
  /\ done' = w.done /\ doneCount' = w.doneCount
  /\ UNCHANGED <<frameNumber, aborted>>
  /\ IF w.died THEN Die({})
     ELSE /\ timer' = FALSE
          /\ UNCHANGED <<intrVars, pciParity>>

\* OnFrameBoundary (426-487), the callback of the one-shot EOF timer.  The
\* frame's walk result w3 is bound once, as a value.
OnFrameBoundary ==
  /\ timer /\ ~aborted
  /\ UNCHANGED <<ctl, hcca, ctrlHead, bulkHead, hubVars>>
  /\ IF hcca = BadAddr
       THEN /\ Die({})
            /\ UNCHANGED <<oldCtl, status, frameNumber, done, doneCount,
                           asyncTd, aborted>>
       ELSE \E m \in FrameMemories, ph \in PeriodicHeads,
               oc \in [EDs -> TdOutcomes] :
            \E w3 \in {FrameWork(m, ph, oc)} :
            /\ oldCtl' = ctl.lists \cap {"CLE", "BLE"}
            /\ status' = w3.status
            /\ asyncTd' = w3.asyncTd
            /\ IF HaltedByUnrecoverableError(w3)
                 THEN StopOnUnrecoverableError(w3)
                 ELSE EndOfFrame(w3)

(***************************************************************************)
(* Root-hub ports.  PortPower, ohci_port_set_if_connected (declared in     *)
(* ohci.h with its contract, not defined in the repository) and the port   *)
(* side of device attach and detach, which the spec assigns to the         *)
(* controller's Attach(port)/Detach(port).                                 *)
(***************************************************************************)
\* PortPower (264-274): power off clears PPS, CCS, PSS and PRS.
PortPower(c, powered) ==
  IF powered THEN c \cup {"PPS"} ELSE c \ {"PPS", "CCS", "PSS", "PRS"}

\* ohci_port_set_if_connected: a request for bit on an unconnected port
\* sets CSC instead; it reports TRUE only when it newly sets bit.
SetIfConnected(c, bit, requested) ==
  CASE ~requested         -> [ctrl |-> c, set |-> FALSE]
    [] "CCS" \notin c     -> [ctrl |-> c \cup {"CSC"}, set |-> FALSE]
    [] bit \in c          -> [ctrl |-> c, set |-> FALSE]
    [] OTHER              -> [ctrl |-> c \cup {bit}, set |-> TRUE]

\* OHCI_Attach: the port reports a connection and a connect change.
OhciAttachPort(c) == c \cup {"CCS", "CSC"}

\* Fault-injection variant: enable is dropped only with the connection.
OhciDetachPortNested(c) ==
  IF "CCS" \in c THEN (c \ {"CCS", "PES"}) \cup {"CSC", "PESC"} ELSE c

\* OHCI_Detach: connection and enable drop, each with its change bit.
OhciDetachPort(c) ==
  LET c1 == IF "CCS" \in c THEN (c \ {"CCS"}) \cup {"CSC"} ELSE c
  IN  IF "PES" \in c1 THEN (c1 \ {"PES"}) \cup {"PESC"} ELSE c1

\* A device that is present and attached (USBDevice::IsAttached).
Attached(p) == dev[p] # "none"

\* RootHubReset (129-148): StopBus, m_rhstatus cleared, every port
\* cleared and an attached device's port reset (USBPort::Reset: Detach,
\* Attach, USBDevice::Reset to DEFAULT), the async packet cancelled.
\* Returns the ports, devices and interrupt bits it produces.
RootHubReset ==
  [ports |-> [p \in Ports |-> IF Attached(p) THEN OhciAttachPort({}) ELSE {}],
   dev   |-> [p \in Ports |-> IF Attached(p) THEN "default" ELSE "none"],
   bits  |-> IF \E p \in Ports : Attached(p) THEN {RHSC} ELSE {}]

\* SetCtl (150-181), HcControl: only a change of HCFS acts.
SetCtl(v) ==
  /\ ctl' = v
  /\ UNCHANGED <<oldCtl, status, hcca, ctrlHead, bulkHead, frameNumber,
                 done, doneCount, pciParity, aborted>>
  /\ CASE v.hcfs = ctl.hcfs ->
            UNCHANGED <<timer, asyncTd, hubVars, intrVars>>
       [] v.hcfs = "OPERATIONAL" ->
            /\ timer' = TRUE
            /\ UNCHANGED <<asyncTd, hubVars, intrVars>>
       [] v.hcfs = "SUSPEND" ->
            /\ timer' = FALSE
            /\ intrStatus' = intrStatus \ {SF} /\ intr' = intr
            /\ UpdateInterrupt
            /\ UNCHANGED <<asyncTd, hubVars>>
       [] v.hcfs = "RESUME" ->
            UNCHANGED <<timer, asyncTd, hubVars, intrVars>>
       [] v.hcfs = "RESET" ->
            LET r == RootHubReset IN
            /\ timer' = FALSE /\ asyncTd' = NoTD
            /\ ports' = r.ports /\ dev' = r.dev /\ rhstatus' = {}
            /\ SetInterrupt(r.bits)

\* HardReset (99-103): SoftReset, m_ctl = 0, RootHubReset.  The IRQ level
\* is recomputed only if an attach in RootHubReset raises RHSC.
HardReset ==
  LET r == RootHubReset IN
  /\ timer' = FALSE
  /\ ctl' = [hcfs |-> "RESET", lists |-> {}]
  /\ oldCtl' = {} /\ status' = {}
  /\ intrStatus' = r.bits /\ intr' = {MIE}
  /\ irq' = IF r.bits # {} THEN Level(r.bits, {MIE}) ELSE irq
  /\ hcca' = HccaRam /\ ctrlHead' = NULL /\ bulkHead' = NULL
  /\ done' = FALSE /\ doneCount' = DoneCountIdle
  /\ frameNumber' = 0 /\ asyncTd' = NoTD
  /\ ports' = r.ports /\ dev' = r.dev /\ rhstatus' = {}
  /\ UNCHANGED <<pciParity, aborted>>

\* SetPortStatus (224-262), a write to HcRhPortStatus[i].
SetPortStatus(i, v) ==
  LET c0 == ports[i]
      c1 == c0 \ (v \cap PortWTC)
      c2 == IF "CCS" \in v THEN c1 \ {"PES"} ELSE c1
      r3 == SetIfConnected(c2, "PES", "PES" \in v)
      r4 == SetIfConnected(r3.ctrl, "PSS", "PSS" \in v)
      r5 == SetIfConnected(r4.ctrl, "PRS", "PRS" \in v)
      c5 == IF r5.set THEN (r5.ctrl \ {"PRS"}) \cup {"PES", "PRSC"}
                      ELSE r5.ctrl
      c6 == IF "LSDA" \in v THEN PortPower(c5, FALSE) ELSE c5
      c7 == IF "PPS" \in v THEN PortPower(c6, TRUE) ELSE c6
  IN  /\ ports' = [ports EXCEPT ![i] = c7]
      /\ dev' = IF r5.set /\ Attached(i)
                  THEN [dev EXCEPT ![i] = "default"] ELSE dev
      /\ SetInterrupt(IF c7 # c0 THEN {RHSC} ELSE {})
      /\ UNCHANGED <<rhstatus, frameVars>>

\* SetHubStatus (183-218), a write to HcRhStatus: LPS powers every port
\* off, LPSC on; RHSC is raised only when m_rhstatus itself changed.
SetHubStatus(v) ==
  LET p1 == IF "LPS" \in v THEN [p \in Ports |-> PortPower(ports[p], FALSE)]
                           ELSE ports
      p2 == IF "LPSC" \in v THEN [p \in Ports |-> PortPower(p1[p], TRUE)]
                            ELSE p1
      r1 == IF "DRWE" \in v THEN rhstatus \cup {"DRWE"} ELSE rhstatus
      r2 == IF "CRWE" \in v THEN r1 \ {"DRWE"} ELSE r1
  IN  /\ ports' = p2 /\ rhstatus' = r2
      /\ SetInterrupt(IF r2 # rhstatus THEN {RHSC} ELSE {})
      /\ UNCHANGED <<dev, frameVars>>

\* HcCommandStatus (639-649): bits are ORed in (SOC is read-only); HCR
\* makes the write a SoftReset.
WriteCommandStatus(v) ==
  IF "HCR" \in v
    THEN SoftReset
    ELSE /\ status' = status \cup v
         /\ UNCHANGED <<ctl, oldCtl, hcca, ctrlHead, bulkHead, timer,
                        frameNumber, done, doneCount, asyncTd, pciParity,
                        aborted, hubVars, intrVars>>

\* The pointer registers HcHCCA, HcControlHeadED, HcBulkHeadED (666-684).
WritePointer(reg, v) ==
  /\ CASE reg = "HcHCCA"          -> hcca' = v /\ UNCHANGED <<ctrlHead, bulkHead>>
       [] reg = "HcControlHeadED" -> ctrlHead' = v /\ UNCHANGED <<hcca, bulkHead>>
       [] reg = "HcBulkHeadED"    -> bulkHead' = v /\ UNCHANGED <<hcca, ctrlHead>>
  /\ UNCHANGED <<ctl, oldCtl, status, timer, frameNumber, done, doneCount,
                 asyncTd, pciParity, aborted, hubVars, intrVars>>

\* m_rhport[k] for each root-hub port: the ports in some fixed order.
PortIndex == CHOOSE f \in [Ports -> 0..Cardinality(Ports) - 1] :
               \A p, q \in Ports : p # q => f[p] # f[q]

\* One guest MMIO write at addr, dispatched on WriteRegister.  Writes to
\* the registers that only store a value the modelled behaviour never reads
\* (current-ED, frame-interval, periodic-start, LS-threshold, descriptor
\* and the PXA27x registers but HcHReset) leave the state as is.
MMIOWriteAt(addr) ==
  LET r == WriteRegister(Cardinality(Ports), addr) IN
  \/ r = Reg("HcControl") /\ \E v \in ControlWrites : SetCtl(v)
  \/ r = Reg("HcCommandStatus") /\ \E v \in CommandWrites : WriteCommandStatus(v)
  \/ /\ r = Reg("HcInterruptStatus")
     /\ \E v \in IntrStatusWrites : WriteInterruptStatus(v)
     /\ UNCHANGED <<frameVars, hubVars>>
  \/ /\ r = Reg("HcInterruptEnable")
     /\ \E v \in IntrEnableWrites : WriteInterruptEnable(v)
     /\ UNCHANGED <<frameVars, hubVars>>
  \/ /\ r = Reg("HcInterruptDisable")
     /\ \E v \in IntrEnableWrites : WriteInterruptDisable(v)
     /\ UNCHANGED <<frameVars, hubVars>>
  \/ r = Reg("HcHCCA") /\ \E v \in HccaWrites : WritePointer("HcHCCA", v)
  \/ /\ r.reg \in {"HcControlHeadED", "HcBulkHeadED"}
     /\ \E v \in HeadWrites : WritePointer(r.reg, v)
  \/ /\ r.reg = "HcRhPortStatus"
     /\ \E i \in Ports, v \in PortWrites : PortIndex[i] = r.port /\ SetPortStatus(i, v)
  \/ r = Reg("HcRhStatus") /\ \E v \in HubWrites : SetHubStatus(v)
  \/ r = Reg("HcHReset") /\ HardReset      \* a write with FSBIR (724-729)

\* PCIMMIOWrite (621-743): one aligned guest write at an offset of the bank.
PCIMMIOWrite ==
  /\ ~aborted
  /\ \E addr \in MmioOffsets : MMIOWriteAt(addr)

\* USBOHCIDevice::Reset (95-97), from the PCI bus reset.
Reset == ~aborted /\ HardReset

\* USB_Attach (133-142): a device plugged into a free port.
DeviceAttach(i) ==
  /\ ~aborted /\ dev[i] = "none"
  /\ dev' = [dev EXCEPT ![i] = "attached"]
  /\ ports' = [ports EXCEPT ![i] = OhciAttachPort(@)]
  /\ SetInterrupt(IF ports'[i] # ports[i] THEN {RHSC} ELSE {})
  /\ UNCHANGED <<rhstatus, frameVars>>

\* USB_Detach (124-131): the device behind a port unplugged.
DeviceDetach(i) ==
  /\ ~aborted /\ dev[i] # "none"
  /\ dev' = [dev EXCEPT ![i] = "none"]
  /\ ports' = [ports EXCEPT ![i] = OhciDetachPort(@)]
  /\ SetInterrupt(IF ports'[i] # ports[i] THEN {RHSC} ELSE {})
  /\ UNCHANGED <<rhstatus, frameVars>>

\* The controller after construction and the PCI reset (HardReset) with no
\* device plugged in.
Init ==
  /\ ctl = [hcfs |-> "RESET", lists |-> {}]
  /\ oldCtl = {} /\ status = {}
  /\ hcca = HccaRam /\ ctrlHead = NULL /\ bulkHead = NULL
  /\ timer = FALSE /\ frameNumber = 0
  /\ done = FALSE /\ doneCount = DoneCountIdle
  /\ asyncTd = NoTD /\ pciParity = FALSE /\ aborted = FALSE
  /\ ports = [p \in Ports |-> {}] /\ rhstatus = {}
  /\ dev = [p \in Ports |-> "none"]
  /\ intrStatus = {} /\ intr = {MIE} /\ irq = FALSE

Next ==
  \/ OnFrameBoundary
  \/ PCIMMIOWrite
  \/ Reset
  \/ \E i \in Ports : DeviceAttach(i) \/ DeviceDetach(i)

Spec == Init /\ [][Next]_vars

\* OnFrameBoundary is enabled, and changes the frame number or the timer,
\* exactly when the timer is armed and the process has not aborted: each
\* of its branches assigns every variable.
FrameTimerArmed == timer /\ ~aborted

\* The EOF timer is one-shot: once armed it fires, unless a reset, a
\* suspend or Die cancels it first.  That is weak fairness of its
\* callback.  The guest's register writes and the hot-plug of devices get
\* no fairness.
FairSpec == Spec /\ WF_vars(OnFrameBoundary)

\* FairSpec with WF_vars(OnFrameBoundary) written out by its definition,
\* []<>~ENABLED <<A>>_vars \/ []<><<A>>_vars, and FrameTimerArmed for the
\* ENABLED: the two agree because OnFrameBoundary's guard is
\* FrameTimerArmed and each of its branches changes the timer or the frame
\* number.  TLC re-evaluates LET and operator arguments inside ENABLED
\* instead of sharing them, which makes the recursive list walk
\* exponential there, so the liveness run checks this form.
FairSpecUnfolded ==
  Spec /\ ([]<>~FrameTimerArmed \/ []<><<OnFrameBoundary>>_vars)

-----------------------------------------------------------------------------
(* The abort() in the done-queue latch (466-467) is never reached: a done  *)
(* count below 7 always comes with a non-empty done queue, across frames,  *)
(* soft and hard resets and Die.                                           *)
NoAbortInDoneLatch == ~aborted

FramesKeepComing ==
  \A n \in 0..FrameNumberMod - 1 :
    (timer /\ frameNumber = n) ~> (~timer \/ frameNumber # n)

(* A port that is enabled is connected: every path that drops CCS (power   *)
(* off by LPS or LSDA, detach) also drops PES, as the spec's port power-off *)
(* rule requires.                                                          *)
PortEnabledImpliesConnected ==
  \A i \in Ports : "PES" \in ports[i] => "CCS" \in ports[i]

\* The current-state bits of a port through which the guest sees a device.
PortStateBits == {"CCS", "PES", "PSS", "PRS"}

\* A step that resets the root hub (RootHubReset, run by HardReset or by a
\* write of HCFS = USBRESET): every port is rebuilt from its device.
RootHubResetStep ==
  /\ ctl'.hcfs = "RESET"
  /\ ports' = RootHubReset.ports /\ dev' = RootHubReset.dev

(* Spec, root-hub/port register semantics: any change to a port's          *)
(* composite state raises the root-hub-status-change interrupt.  Every     *)
(* step that changes a port's connect, enable, suspend or reset state,     *)
(* other than a root-hub reset, leaves RHSC pending, so the driver learns  *)
(* that a device appeared or went away.  SetPortStatus, attach and detach  *)
(* raise it; SetHubStatus raises it only when m_rhstatus changed, while    *)
(* its LPS and LPSC branches power every port off or on.                   *)
PortStateChangeRaisesRHSC ==
  [][(\E i \in Ports : ports'[i] \cap PortStateBits # ports[i] \cap PortStateBits)
       /\ ~RootHubResetStep
       => RHSC \in intrStatus']_vars

(* A port that reports a connection or is enabled has a device behind it: *)
(* attach, detach, power switching and port resets keep CCS and PES in     *)
(* step with the device plugged into the port.                             *)
ConnectedOrEnabledPortHasDevice ==
  \A i \in Ports : ports[i] \cap {"CCS", "PES"} # {} => dev[i] # "none"

(* Register decode: for every port count the controller can be built with  *)
(* and every offset of BAR 0, a read or write of a register the spec's     *)
(* layout names reaches that register (a write to a read-only register may *)
(* be dropped), and an access to a reserved or unaligned offset reaches no *)
(* OHCI register: it is dropped, or reaches one of the PXA27x registers    *)
(* the code adds at 0x60-0x6C.  This is the port-block bound and the two   *)
(* switches of PCIMMIORead and PCIMMIOWrite against the spec.  The decode *)
(* depends on no variable, so it is the same check at every step.         *)
DecodeAgreesWithLayout ==
  \A n \in 1..MaxRootPorts, addr \in 0..(MmioWindow - 1) :
    /\ ReadRegister(n, addr) \in LayoutAllows(n, addr, "read")
    /\ WriteRegister(n, addr) \in LayoutAllows(n, addr, "write")
RegisterDecodeMatchesLayout == [][DecodeAgreesWithLayout]_vars

=============================================================================
