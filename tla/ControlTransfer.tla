-------------------------- MODULE ControlTransfer --------------------------
(***************************************************************************)
(* What a USB control pipe promises its host, in terms of whole transfers  *)
(* (USB 2.0, 8.5.3; spec.md, control pipe): a SETUP starts a transfer,     *)
(* which is accepted or refused; an accepted transfer moves its data stage *)
(* in order, never past its length, then has a status stage, and ends.     *)
(* A new SETUP may abort whatever transfer is open, and a token in the     *)
(* wrong direction aborts an open data stage.                              *)
(*                                                                         *)
(* The length of an IN data stage is the device's reply cut to wLength; an *)
(* OUT data stage takes wLength bytes and is accepted exactly when they    *)
(* fit the device's buffer.                                                *)
(***************************************************************************)
EXTENDS Naturals

CONSTANTS
  DataBufSize,  \* bytes an OUT data stage may carry
  MaxWLength,   \* largest wLength a SETUP carries
  HandlerMax    \* longest reply of a device's control handler

Phases == {"idle", "data", "status"}

VARIABLES
  phase,   \* the stage of the open transfer, "idle" when none is
  dir,     \* direction of the open transfer
  length,  \* bytes its data stage moves
  moved    \* bytes moved so far

vars == <<phase, dir, length, moved>>

TypeOK ==
  /\ phase \in Phases
  /\ dir \in {"in", "out"}
  /\ length \in 0..MaxWLength
  /\ moved \in 0..length

Idle == phase' = "idle" /\ dir' = "out" /\ length' = 0 /\ moved' = 0

Init == phase = "idle" /\ dir = "out" /\ length = 0 /\ moved = 0

\* A SETUP the device accepts: an IN request with a reply of r bytes, an
\* OUT request of wl bytes that fit the buffer.  A zero-length OUT request
\* goes straight to its status stage.
Accept(d, wl) ==
  /\ dir' = d /\ moved' = 0
  /\ \/ d = "in" /\ \E r \in 0..HandlerMax :
          length' = IF wl < r THEN wl ELSE r
     \/ d = "out" /\ wl <= DataBufSize /\ length' = wl
  /\ phase' = IF d = "out" /\ wl = 0 THEN "status" ELSE "data"

\* A SETUP the device stalls or defers: no transfer is open.  An OUT
\* request that fits the buffer is never refused.
Refuse(d, wl) ==
  /\ d = "out" => wl > DataBufSize
  /\ Idle

Setup == \E d \in {"in", "out"}, wl \in 0..MaxWLength : Accept(d, wl) \/ Refuse(d, wl)

\* n more bytes of the data stage; the last one opens the status stage.
Transfer ==
  /\ phase = "data"
  /\ \E n \in 1..length - moved :
       /\ moved' = moved + n
       /\ phase' = IF moved + n = length THEN "status" ELSE "data"
  /\ UNCHANGED <<dir, length>>

\* A zero-length token ends an empty data stage.
EndEmptyData ==
  /\ phase = "data" /\ moved = length
  /\ phase' = "status"
  /\ UNCHANGED <<dir, length, moved>>

\* The status stage completes (or the device stalls it): the transfer ends.
Finish == phase = "status" /\ Idle

\* A token against the direction of the data stage aborts the transfer.
Abort == phase = "data" /\ Idle

Next == Setup \/ Transfer \/ EndEmptyData \/ Finish \/ Abort

Spec == Init /\ [][Next]_vars

=============================================================================
