-------------------------- MODULE UsbControlPipe --------------------------
(***************************************************************************)
(* The endpoint-zero control-transfer state machine of a USB device, as   *)
(* implemented by USBPCIDevice in src/core/openxbox/hw/pci/usb_pci.cpp     *)
(* (USB_ProcessOne, USB_DoTokenSetup, DoTokenIn, DoTokenOut).              *)
(*                                                                         *)
(* One step is one token packet handed to USB_ProcessOne for endpoint 0:   *)
(* a SETUP, IN or OUT token with a buffer of a given size.  The device's   *)
(* control handler (USB_DeviceHandleControl) is an external collaborator:  *)
(* its result is a nondeterministic choice of status and reply length.     *)
(*                                                                         *)
(* Data abstraction: the 8-byte SetupBuffer is kept as the two fields the  *)
(* state machine reads (direction bit of bmRequestType and wLength);       *)
(* bRequest/wValue/wIndex only reach the handler and are left out.  Byte   *)
(* counts are scaled: DataBufSize stands for sizeof(data_buf) = 4096.      *)
(***************************************************************************)
EXTENDS Naturals, FiniteSetsExt

CONSTANTS
  DataBufSize,        \* sizeof(XboxDevice::data_buf)
  MaxWLength,         \* largest wLength the host puts in a SETUP packet
  PacketSizes,        \* IoVec sizes of IN/OUT token buffers
  SetupPacketSizes,   \* IoVec sizes of SETUP token buffers (8 is legal)
  HandlerMax,         \* longest reply a device control handler produces
  HostRestartsAfterStall \* TRUE: after a STALL the host's next token is SETUP

ASSUME /\ DataBufSize \in Nat \ {0}
       /\ MaxWLength \in Nat
       /\ PacketSizes \subseteq Nat
       /\ 8 \in SetupPacketSizes
       /\ HandlerMax \in 0..DataBufSize
       /\ HostRestartsAfterStall \in BOOLEAN

\* SETUP_STATE_* of usb_pci.cpp (SETUP_STATE_PARAM is only entered through
\* USB_DoParameter, which no caller reaches: Parameter is always 0).
SetupStates == {"IDLE", "SETUP", "DATA", "ACK"}
Dirs == {"in", "out"}                         \* SetupBuffer[0] & USB_DIR_IN
Statuses == {"SUCCESS", "STALL", "ASYNC"}      \* USB_RET_* a step can leave
Pids == {"SETUP", "IN", "OUT"}

VARIABLES
  SetupState,   \* XboxDevice::SetupState
  SetupBuffer,  \* XboxDevice::SetupBuffer: [dir, wLength]
  SetupLength,  \* XboxDevice::SetupLength
  SetupIndex,   \* XboxDevice::SetupIndex: data-stage cursor into data_buf
  p,            \* the token just processed: [pid, Status, ActualLength]
  accepted,     \* history: the request in SetupBuffer was accepted
  reply         \* history: reply length the handler produced for it

vars == <<SetupState, SetupBuffer, SetupLength, SetupIndex, p, accepted, reply>>

TypeOK ==
  /\ SetupState \in SetupStates
  /\ SetupBuffer \in [dir : Dirs, wLength : 0..MaxWLength]
  /\ SetupLength \in 0..MaxWLength
  /\ SetupIndex \in 0..MaxWLength
  /\ p \in [pid : Pids \cup {"NONE"}, Status : Statuses \cup {"NONE"},
            ActualLength : 0..Max({8} \cup PacketSizes)]
  /\ accepted \in BOOLEAN
  /\ reply \in 0..HandlerMax

\* A freshly realized device: all of XboxDevice is zero.
Init ==
  /\ SetupState = "IDLE"
  /\ SetupBuffer = [dir |-> "out", wLength |-> 0]
  /\ SetupLength = 0
  /\ SetupIndex = 0
  /\ p = [pid |-> "NONE", Status |-> "NONE", ActualLength |-> 0]
  /\ accepted = FALSE
  /\ reply = 0

Result(pid, st, len) == [pid |-> pid, Status |-> st, ActualLength |-> len]

\* The host may put an IN or OUT token on the pipe.
HostMaySendData == ~(HostRestartsAfterStall /\ p.Status = "STALL")

(***************************************************************************)
(* USB_DoTokenSetup (usb_pci.cpp 353-408).  A buffer that is not 8 bytes   *)
(* stalls before anything is copied.  Otherwise SetupBuffer, SetupLength   *)
(* and SetupIndex are overwritten first, and only then is the request      *)
(* either handed to the handler (IN) or checked against data_buf (OUT);    *)
(* both early returns keep the previous SetupState.                        *)
(***************************************************************************)
\* Fault-injection variant: an ASYNC handler result is taken as success.
SetupInAsyncAsSuccess(wLength) ==
  \E st \in Statuses, r \in 0..Min({wLength, HandlerMax}) :
    /\ reply' = IF st = "SUCCESS" THEN r ELSE 0
    /\ accepted' = (st = "SUCCESS")
    /\ IF st = "STALL"
         THEN /\ UNCHANGED SetupState
              /\ SetupLength' = wLength
              /\ p' = Result("SETUP", "STALL", 0)
         ELSE /\ SetupState' = "DATA"
              /\ SetupLength' = Min({wLength, r})
              /\ p' = Result("SETUP", st, 8)

\* Fault-injection variant: the reply length does not clamp SetupLength.
SetupInNoClamp(wLength) ==
  \E st \in Statuses, r \in 0..Min({wLength, HandlerMax}) :
    /\ reply' = IF st = "SUCCESS" THEN r ELSE 0
    /\ accepted' = (st = "SUCCESS")
    /\ SetupLength' = wLength
    /\ CASE st = "ASYNC" ->
              /\ SetupState' = "SETUP"
              /\ p' = Result("SETUP", "ASYNC", 0)
         [] st = "STALL" ->
              /\ UNCHANGED SetupState
              /\ p' = Result("SETUP", "STALL", 0)
         [] st = "SUCCESS" ->
              /\ SetupState' = "DATA"
              /\ p' = Result("SETUP", "SUCCESS", 8)

SetupIn(wLength) ==
  \E st \in Statuses, r \in 0..Min({wLength, HandlerMax}) :
    /\ reply' = IF st = "SUCCESS" THEN r ELSE 0
    /\ accepted' = (st = "SUCCESS")
    /\ CASE st = "ASYNC" ->
              /\ SetupState' = "SETUP"
              /\ SetupLength' = wLength
              /\ p' = Result("SETUP", "ASYNC", 0)
         [] st = "STALL" ->
              /\ UNCHANGED SetupState
              /\ SetupLength' = wLength
              /\ p' = Result("SETUP", "STALL", 0)
         [] st = "SUCCESS" ->
              /\ SetupState' = "DATA"
              /\ SetupLength' = Min({wLength, r})
              /\ p' = Result("SETUP", "SUCCESS", 8)

SetupOut(wLength) ==
  /\ reply' = 0
  /\ SetupLength' = wLength
  /\ IF wLength > DataBufSize
       THEN /\ UNCHANGED SetupState
            /\ accepted' = FALSE
            /\ p' = Result("SETUP", "STALL", 0)
       ELSE /\ SetupState' = IF wLength = 0 THEN "ACK" ELSE "DATA"
            /\ accepted' = TRUE
            /\ p' = Result("SETUP", "SUCCESS", 8)

USB_DoTokenSetup(size, dir, wLength) ==
  IF size # 8
    THEN /\ p' = Result("SETUP", "STALL", 0)
         /\ UNCHANGED <<SetupState, SetupBuffer, SetupLength, SetupIndex,
                        accepted, reply>>
    ELSE /\ SetupBuffer' = [dir |-> dir, wLength |-> wLength]
         /\ SetupIndex' = 0
         /\ IF dir = "in" THEN SetupIn(wLength) ELSE SetupOut(wLength)

(***************************************************************************)
(* The data stage shared by DoTokenIn and DoTokenOut: copy at most the     *)
(* remaining SetupLength - SetupIndex bytes, bounded by the token buffer,  *)
(* at data_buf + SetupIndex, and enter ACK once the cursor reaches         *)
(* SetupLength.                                                            *)
(***************************************************************************)
\* Fault-injection variant: ACK is entered one byte early.
DataStageEarlyAck(pid, size) ==
  LET len == Min({SetupLength - SetupIndex, size})
  IN /\ SetupIndex' = SetupIndex + len
     /\ SetupState' = IF SetupIndex + len + 1 >= SetupLength THEN "ACK" ELSE "DATA"
     /\ p' = Result(pid, "SUCCESS", len)

\* Fault-injection variant: the copy is bounded by the token buffer only.
DataStageUnbounded(pid, size) ==
  /\ SetupIndex' = SetupIndex + size
  /\ SetupState' = IF SetupIndex + size >= SetupLength THEN "ACK" ELSE "DATA"
  /\ p' = Result(pid, "SUCCESS", size)

DataStage(pid, size) ==
  LET len == Min({SetupLength - SetupIndex, size})
  IN /\ SetupIndex' = SetupIndex + len
     /\ SetupState' = IF SetupIndex + len >= SetupLength THEN "ACK" ELSE "DATA"
     /\ p' = Result(pid, "SUCCESS", len)

\* A token in a state/direction it does not belong to.
Stall(pid, reset) ==
  /\ SetupState' = IF reset THEN "IDLE" ELSE SetupState
  /\ p' = Result(pid, "STALL", 0)
  /\ UNCHANGED SetupIndex

(***************************************************************************)
(* DoTokenIn (usb_pci.cpp 410-451).  In ACK of an OUT request the control  *)
(* handler runs now, on the data collected in data_buf.                    *)
(***************************************************************************)
DoTokenIn(size) ==
  /\ UNCHANGED <<SetupBuffer, SetupLength, accepted, reply>>
  /\ CASE SetupState = "ACK" /\ SetupBuffer.dir = "out" ->
            \E st \in Statuses :
              /\ SetupState' = IF st = "ASYNC" THEN SetupState ELSE "IDLE"
              /\ p' = Result("IN", st, 0)
              /\ UNCHANGED SetupIndex
       [] SetupState = "ACK" /\ SetupBuffer.dir = "in" ->
            /\ p' = Result("IN", "SUCCESS", 0)
            /\ UNCHANGED <<SetupState, SetupIndex>>
       [] SetupState = "DATA" /\ SetupBuffer.dir = "in" -> DataStage("IN", size)
       [] SetupState = "DATA" /\ SetupBuffer.dir = "out" -> Stall("IN", TRUE)
       [] OTHER -> Stall("IN", FALSE)

(***************************************************************************)
(* DoTokenOut (usb_pci.cpp 453-487).  In ACK an OUT token ends an IN       *)
(* request (status stage) and is ignored for an OUT request.               *)
(***************************************************************************)
DoTokenOut(size) ==
  /\ UNCHANGED <<SetupBuffer, SetupLength, accepted, reply>>
  /\ CASE SetupState = "ACK" ->
            /\ SetupState' = IF SetupBuffer.dir = "in" THEN "IDLE" ELSE "ACK"
            /\ p' = Result("OUT", "SUCCESS", 0)
            /\ UNCHANGED SetupIndex
       [] SetupState = "DATA" /\ SetupBuffer.dir = "out" -> DataStage("OUT", size)
       [] SetupState = "DATA" /\ SetupBuffer.dir = "in" -> Stall("OUT", TRUE)
       [] OTHER -> Stall("OUT", FALSE)

(***************************************************************************)
(* USB_ProcessOne for endpoint 0 (usb_pci.cpp 279-312): Status is reset to *)
(* success and the token is dispatched on its pid.                         *)
(***************************************************************************)
USB_ProcessOne ==
  \/ \E size \in SetupPacketSizes, dir \in Dirs, wl \in 0..MaxWLength :
       USB_DoTokenSetup(size, dir, wl)
  \/ HostMaySendData /\ \E size \in PacketSizes : DoTokenIn(size)
  \/ HostMaySendData /\ \E size \in PacketSizes : DoTokenOut(size)

Next == USB_ProcessOne

Spec == Init /\ [][Next]_vars

-----------------------------------------------------------------------------
(***************************************************************************)
(* Properties.                                                             *)
(***************************************************************************)

\* Expected data-stage length of the request in SetupBuffer: an IN request
\* delivers the handler's reply, cut to wLength; an OUT request takes wLength.
ExpectedDataLength ==
  IF SetupBuffer.dir = "in" THEN Min({SetupBuffer.wLength, reply})
                            ELSE SetupBuffer.wLength

(* When the pipe reaches its status stage (ACK) for an accepted request,   *)
(* the data stage has moved exactly the expected number of bytes: an IN   *)
(* request has handed the whole reply (no more, no less) to the host, and *)
(* the OUT handler, which runs in ACK, sees all of the host's data.  This *)
(* is about the clamp in USB_DoTokenSetup and the cursor logic of          *)
(* DoTokenIn/DoTokenOut over several tokens.                               *)
StatusStageAfterFullDataStage ==
  (SetupState = "ACK" /\ accepted) => SetupIndex = ExpectedDataLength

(* Whenever the host may send a data or status token, an open DATA or ACK *)
(* stage belongs to the request in SetupBuffer and that request was       *)
(* accepted (the IN handler succeeded, or the OUT length fit data_buf):   *)
(* no data stage is served for a request the device stalled or deferred.  *)
DataStageBelongsToAcceptedRequest ==
  (HostMaySendData /\ SetupState \in {"DATA", "ACK"}) => accepted

(* The data-stage cursor never runs past data_buf: every copy of DoTokenIn *)
(* or DoTokenOut reads or writes data_buf[SetupIndex .. SetupIndex+len-1]. *)
DataCursorInBuffer == SetupIndex <= DataBufSize

(***************************************************************************)
(* Refinement.  The pipe implements ControlTransfer: a transfer is open    *)
(* while the request in SetupBuffer was accepted and SetupState is DATA    *)
(* (its data stage) or ACK (its status stage); SetupLength and SetupIndex  *)
(* are the transfer's length and progress.  Tokens the pipe stalls without *)
(* a state change, and ASYNC results that keep the state, are stuttering   *)
(* steps of the abstract transfer.                                         *)
(***************************************************************************)
TransferPhase ==
  CASE accepted /\ SetupState = "DATA" -> "data"
    [] accepted /\ SetupState = "ACK" -> "status"
    [] OTHER -> "idle"

Open(x, none) == IF TransferPhase = "idle" THEN none ELSE x

CT == INSTANCE ControlTransfer
        WITH phase <- TransferPhase,
             dir <- Open(SetupBuffer.dir, "out"),
             length <- Open(SetupLength, 0),
             moved <- Open(SetupIndex, 0)

(* With a host that restarts after a STALL, every sequence of tokens the   *)
(* pipe handles is a sequence of whole control transfers: USB_DoTokenSetup *)
(* opens or refuses one, DoTokenIn/DoTokenOut move its data stage in order *)
(* and never past its length, then end it in the status stage.            *)
RefinesControlTransfer == CT!Spec

=============================================================================
