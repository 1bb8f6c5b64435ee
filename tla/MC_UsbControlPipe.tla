------------------------- MODULE MC_UsbControlPipe -------------------------
(***************************************************************************)
(* Model-checking instance of UsbControlPipe.  data_buf is scaled from     *)
(* 4096 bytes to 3; token buffers of 0, 1 and 2 bytes make a data stage    *)
(* take one, two or three tokens (and a zero-length token make none).      *)
(* A SETUP buffer of 7 bytes stands for every illegal SETUP length.        *)
(***************************************************************************)
EXTENDS UsbControlPipe

MCPacketSizes == {0, 1, 2}
MCSetupPacketSizes == {7, 8}
=============================================================================
