-------------------------- MODULE OhciInterrupts --------------------------
(***************************************************************************)
(* The OHCI interrupt model of USBOHCIDevice                               *)
(* (src/core/openxbox/hw/pci/usb_ohci_pci.cpp): HcInterruptStatus          *)
(* (m_intrStatus), the merged HcInterruptEnable/Disable mask (m_intr) and  *)
(* the level last driven on the IRQ line (m_irq->Handle(level)).           *)
(*                                                                         *)
(* Register values are kept as the set of their bits that the controller   *)
(* reads or writes; a guest write value is a member of a small input set.  *)
(* The modules of the controller's parts EXTEND this one.                  *)
(***************************************************************************)

CONSTANTS
  IntrBits,          \* OHCI_INTR_* status bits raised by the modelled parts
  IntrEnableWrites,  \* values the guest writes to HcInterruptEnable/Disable
  IntrStatusWrites   \* values the guest writes to HcInterruptStatus

\* OHCI_INTR_MIE, the master interrupt enable, exists only in the mask.
MIE == "MIE"

ASSUME /\ MIE \notin IntrBits
       /\ IntrEnableWrites \subseteq SUBSET (IntrBits \cup {MIE})
       /\ IntrStatusWrites \subseteq SUBSET IntrBits

VARIABLES
  intrStatus,   \* m_intrStatus
  intr,         \* m_intr
  irq           \* level last passed to m_irq->Handle

intrVars == <<intrStatus, intr, irq>>

IntrTypeOK ==
  /\ intrStatus \subseteq IntrBits
  /\ intr \subseteq IntrBits \cup {MIE}
  /\ irq \in BOOLEAN

\* The level UpdateInterrupt computes from a status and a mask (302-310).
Level(status, mask) == MIE \in mask /\ status \cap mask # {}

\* UpdateInterrupt (302-310): recompute the level from primed registers.
UpdateInterrupt == irq' = Level(intrStatus', intr')

\* SetInterrupt (297-300): latch bits, then UpdateInterrupt.
SetInterrupt(bits) ==
  /\ intrStatus' = intrStatus \cup bits
  /\ UNCHANGED intr
  /\ UpdateInterrupt

\* PCIMMIOWrite case 3, HcInterruptStatus: write one to clear (651-654).
WriteInterruptStatus(value) ==
  /\ intrStatus' = intrStatus \ value
  /\ UNCHANGED intr
  /\ UpdateInterrupt

\* Fault-injection variant: the enable write does not recompute the level.
WriteInterruptEnableNoUpdate(value) ==
  /\ intr' = intr \cup value
  /\ UNCHANGED <<intrStatus, irq>>

\* PCIMMIOWrite case 4, HcInterruptEnable (656-659).
WriteInterruptEnable(value) ==
  /\ intr' = intr \cup value
  /\ UNCHANGED intrStatus
  /\ UpdateInterrupt

\* PCIMMIOWrite case 5, HcInterruptDisable (661-664).
WriteInterruptDisable(value) ==
  /\ intr' = intr \ value
  /\ UNCHANGED intrStatus
  /\ UpdateInterrupt

-----------------------------------------------------------------------------
(* No lost interrupt: whenever an enabled interrupt is pending and the     *)
(* master enable is set, the IRQ line is asserted.  Every path that sets a *)
(* status bit or an enable bit must end in UpdateInterrupt.                *)
NoLostInterrupt == Level(intrStatus, intr) => irq

(* No spurious interrupt: the IRQ line is exactly the level the registers  *)
(* call for, so a cleared or masked interrupt never stays asserted.        *)
IrqLevelMatchesRegisters == irq = Level(intrStatus, intr)

=============================================================================
