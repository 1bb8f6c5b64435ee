------------------------- MODULE MC_UsbPacketQueue -------------------------
(* Three packets of the host controller on one endpoint.                   *)
EXTENDS UsbPacketQueue

CONSTANTS pk1, pk2, pk3

MCPackets == {pk1, pk2, pk3}

=============================================================================
