------------------------------ MODULE MC_PciBus ------------------------------
(* The console's PCI bus with the OHCI controller USB0 and the APU at bus  *)
(* 0, slots 1 and 2, function 0 or 1; a configuration space of two dwords. *)
(* Memory addresses are offsets from 0xFE000000 (TLC integers are signed   *)
(* 32-bit): the BARs sit where the Init() comments place them, the APU at  *)
(* 0xFE800000 and USB0 at 0xFED00000.                                       *)
EXTENDS PciMmio

CONSTANTS dv1, dv2, val1, val0

MCDevs == {dv1, dv2}
MCTriples == {[bus |-> 0, slot |-> s, func |-> f] : <<s, f>> \in {<<1, 0>>, <<1, 1>>, <<2, 0>>}}
ApuBase == 8388608      \* 0x800000
OhciBase == 13631488    \* 0xD00000
\* RegisterBAR sizes of the two Init()s; no IO BAR (size 0).
MCBars == [d \in MCDevs |->
             [io  |-> [base |-> 49152, size |-> 0],
              mem |-> [base |-> IF d = dv1 THEN OhciBase ELSE ApuBase,
                       size |-> IF d = dv1 THEN OHCI_BAR_SIZE ELSE APU_BAR_SIZE]]]
\* APU_*_BASE/SIZE are not in the repository: disjoint 64 KiB blocks
\* inside the BAR, VP and GP adjacent so a block's end is the next start.
MCApuBlocks == [VP |-> [base |-> 131072, size |-> 65536],
                GP |-> [base |-> 196608, size |-> 65536],
                EP |-> [base |-> 327680, size |-> 65536]]
\* The OHCI offset after the port block with 4 ports (0x64) and the end of
\* its BAR (0x1000); the APU's timer (0x200C), VP FIFO status and the
\* VP/GP boundary.
MCAddrs == {OhciBase + 100, OhciBase + 4096,
            ApuBase + 8204, ApuBase + 131072 + 16, ApuBase + 196608}

=============================================================================
