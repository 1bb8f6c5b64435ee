------------------------------- MODULE NvApu -------------------------------
(***************************************************************************)
(* NVAPUDevice (pci/nvapu.cpp), the audio processing unit's PCI device.    *)
(* Its BAR 0 holds three register blocks, VP, GP and EP, whose bases and   *)
(* sizes (APU_*_BASE, APU_*_SIZE) are not defined in the repository and    *)
(* are constants here.  Every handler is a stub that only logs, except two *)
(* reads the guest needs: VP offset 0x10 reads 0x80 (the FIFO is empty)    *)
(* and 0x200C outside the blocks reads the 48 kHz timer.  A read no branch *)
(* answers leaves *value as the caller had it: the model returns          *)
(* Undefined.  The device keeps no state, so its operations are operators *)
(* giving the handler an access reaches and the value a read returns.     *)
(***************************************************************************)
EXTENDS Naturals

CONSTANTS
  Apu,         \* the NVAPUDevice on the PCI bus
  ApuBlocks    \* [VP |-> [base, size], GP |-> .., EP |-> ..] within BAR 0

\* RegisterBAR(0, 0x80000, PCI_BAR_TYPE_MEMORY) in Init (66-68).
APU_BAR_SIZE == 524288

\* The address PCIMMIORead answers with GetAPUTime() (98-100).
APU_TIME_ADDR == 8204

\* The VP offset whose read reports an empty FIFO, and the value (142-144).
VP_FIFO_STATUS == 16
FifoEmpty == 128

\* GetAPUTime (46-50): the 48 kHz time since the clock's epoch, cast to
\* uint32_t.  Its value is abstracted to a token.
ApuTime == "apu_time"
Undefined == "undefined"

\* Fault-injection variant: the end of a block taken as inside it.
InBlockInclusive(b, addr) ==
  addr >= ApuBlocks[b].base /\ addr <= ApuBlocks[b].base + ApuBlocks[b].size

\* addr >= APU_b_BASE && addr < APU_b_BASE + APU_b_SIZE.
InBlock(b, addr) ==
  addr >= ApuBlocks[b].base /\ addr < ApuBlocks[b].base + ApuBlocks[b].size

\* A handler call: which handler, at which offset, and for a read the value
\* it leaves in *value.
Call(h, off, v) == [handler |-> h, offset |-> off, value |-> v]

\* VPRead (140-148); GPRead (124-126) and EPRead (132-134) only log.
VPRead(address) ==
  IF address = VP_FIFO_STATUS THEN FifoEmpty ELSE Undefined

\* PCIMMIORead (81-103): the first block holding addr gets the read at the
\* offset into the block; otherwise 0x200C reads the timer and every other
\* address is an unhandled read.
ApuMMIORead(addr) ==
  IF InBlock("VP", addr)
    THEN LET off == addr - ApuBlocks["VP"].base IN Call("VPRead", off, VPRead(off))
  ELSE IF InBlock("GP", addr)
    THEN Call("GPRead", addr - ApuBlocks["GP"].base, Undefined)
  ELSE IF InBlock("EP", addr)
    THEN Call("EPRead", addr - ApuBlocks["EP"].base, Undefined)
  ELSE IF addr = APU_TIME_ADDR
    THEN Call("none", addr, ApuTime)
  ELSE Call("none", addr, Undefined)

\* PCIMMIOWrite (105-122): a write in any of the three blocks goes to
\* VPWrite (150-152), at the offset into its own block; GPWrite and EPWrite
\* are never called.  All three only log.
ApuMMIOWrite(addr) ==
  IF InBlock("VP", addr) THEN Call("VPWrite", addr - ApuBlocks["VP"].base, "none")
  ELSE IF InBlock("GP", addr) THEN Call("VPWrite", addr - ApuBlocks["GP"].base, "none")
  ELSE IF InBlock("EP", addr) THEN Call("VPWrite", addr - ApuBlocks["EP"].base, "none")
  ELSE Call("none", addr, "none")

-----------------------------------------------------------------------------
\* The block whose window holds addr, from the layout alone.
BlockAt(addr) ==
  IF \E b \in DOMAIN ApuBlocks : addr - ApuBlocks[b].base \in 0..ApuBlocks[b].size - 1
    THEN CHOOSE b \in DOMAIN ApuBlocks : addr - ApuBlocks[b].base \in 0..ApuBlocks[b].size - 1
    ELSE "none"

\* The read handler of each block.
ReadHandler == [VP |-> "VPRead", GP |-> "GPRead", EP |-> "EPRead", none |-> "none"]

=============================================================================
