-------------------------- MODULE UsbPacketQueue --------------------------
(***************************************************************************)
(* Packet dispatch to one USB endpoint: USB_PacketSetup, USB_HandlePacket, *)
(* USB_QueueOne and USB_CancelPacket of USBPCIDevice (usb_pci.cpp).        *)
(* USBPacket::Cancel (usb/usb.cpp), a second cancellation on the         *)
(* std::queue that ohci_service_td (not in the repository) fills, is left  *)
(* out; OhciController models its calls as dropping m_async_td.           *)
(*                                                                         *)
(* The endpoint's queue is a sequence of packets.  The device's data       *)
(* handler (USB_ProcessOne for a non-zero endpoint) is an external         *)
(* collaborator: its result is a choice from DeviceReplies.  The host      *)
(* controller that builds and submits packets is the environment; it keeps *)
(* the asserted calling contracts (a packet is set up only when not in     *)
(* flight, submitted only in SETUP state, cancelled only when in flight).  *)
(* Nothing in the repository sets USBEndpoint::Halted, so the halted       *)
(* branch of USB_HandlePacket is dead and left out.                        *)
(***************************************************************************)
EXTENDS Naturals, Sequences, SequencesExt

CONSTANTS
  Packets,        \* the USBPacket objects the host controller owns
  Streams,        \* stream ids a packet may carry (0 = none)
  DeviceReplies   \* USB_RET_* results of the device's data handler

ASSUME /\ 0 \in Streams
       /\ DeviceReplies \subseteq {"SUCCESS", "NAK", "STALL", "ASYNC", "ADD_TO_QUEUE"}

\* USBPacketState (usb_pci.h 59-66).
PacketStates == {"UNDEFINED", "SETUP", "QUEUED", "ASYNC", "COMPLETE", "CANCELED"}
Inflight == {"QUEUED", "ASYNC"}

VARIABLES
  state,    \* p->State
  status,   \* p->Status
  stream,   \* p->Stream
  queue,    \* p->Endpoint->Queue, head first
  pipeline  \* p->Endpoint->Pipeline, fixed when the device is realized

vars == <<state, status, stream, queue, pipeline>>

TypeOK ==
  /\ state \in [Packets -> PacketStates]
  /\ status \in [Packets -> {"SUCCESS", "NAK", "STALL", "ASYNC", "NODEV"}]
  /\ stream \in [Packets -> Streams]
  /\ queue \in Seq(Packets)
  /\ pipeline \in BOOLEAN

Init ==
  /\ state = [p \in Packets |-> "UNDEFINED"]
  /\ status = [p \in Packets |-> "SUCCESS"]
  /\ stream = [p \in Packets |-> 0]
  /\ queue = <<>>
  /\ pipeline \in BOOLEAN

\* USB_IsPacketInflight (211-213).
IsInflight(p) == state[p] \in Inflight

\* USB_PacketSetup (193-209): assert(!inflight), then reset the packet.
USB_PacketSetup(p, s) ==
  /\ ~IsInflight(p)
  /\ state' = [state EXCEPT ![p] = "SETUP"]
  /\ status' = [status EXCEPT ![p] = "SUCCESS"]
  /\ stream' = [stream EXCEPT ![p] = s]
  /\ UNCHANGED <<queue, pipeline>>

\* Fault-injection variant: the packet is marked QUEUED but not linked.
USB_QueueOneNoInsert(p) ==
  /\ state' = [state EXCEPT ![p] = "QUEUED"]
  /\ UNCHANGED queue
  /\ status' = [status EXCEPT ![p] = "ASYNC"]

\* USB_QueueOne (264-268).
USB_QueueOne(p) ==
  /\ state' = [state EXCEPT ![p] = "QUEUED"]
  /\ queue' = Append(queue, p)
  /\ status' = [status EXCEPT ![p] = "ASYNC"]

\* The device contract USB_HandlePacket asserts (252-253): on a pipelined
\* endpoint with packets queued, a non-stream packet is never answered
\* synchronously.
DeviceMayReply(p, r) ==
  r \in {"ASYNC", "ADD_TO_QUEUE"} \/ stream[p] # 0 \/ ~pipeline \/ queue = <<>>

\* Fault-injection variant: ADD_TO_QUEUE falls into the synchronous branch.
ProcessResultNoQueueCase(p, r) ==
  CASE r = "ASYNC" ->
         /\ state' = [state EXCEPT ![p] = "ASYNC"]
         /\ status' = [status EXCEPT ![p] = "ASYNC"]
         /\ queue' = Append(queue, p)
    [] OTHER ->
         /\ state' = IF r # "NAK" THEN [state EXCEPT ![p] = "COMPLETE"] ELSE state
         /\ status' = [status EXCEPT ![p] = r]
         /\ UNCHANGED queue

\* The branch on USB_ProcessOne's result (237-258).
ProcessResult(p, r) ==
  CASE r = "ASYNC" ->
         /\ state' = [state EXCEPT ![p] = "ASYNC"]
         /\ status' = [status EXCEPT ![p] = "ASYNC"]
         /\ queue' = Append(queue, p)
    [] r = "ADD_TO_QUEUE" -> USB_QueueOne(p)
    [] OTHER ->
         /\ state' = IF r # "NAK" THEN [state EXCEPT ![p] = "COMPLETE"] ELSE state
         /\ status' = [status EXCEPT ![p] = r]
         /\ UNCHANGED queue

\* Fault-injection variant: the packet is processed at once even when
\* earlier packets of a non-pipelined endpoint are still queued.
HandleNoQueueCheck(p, r) == ProcessResult(p, r)

\* Whether the packet is processed now or queued behind earlier ones (236).
HandleOrQueue(p, r) ==
  IF queue = <<>> \/ pipeline \/ stream[p] # 0
    THEN ProcessResult(p, r)
    ELSE USB_QueueOne(p)

\* USB_HandlePacket (219-262): no device answers NODEV at once; otherwise
\* the packet, which must be in SETUP, is processed or queued.
USB_HandlePacket(p, devPresent, r) ==
  /\ state[p] = "SETUP"
  /\ IF ~devPresent
       THEN /\ status' = [status EXCEPT ![p] = "NODEV"]
            /\ UNCHANGED <<state, queue>>
       ELSE /\ DeviceMayReply(p, r)
            /\ HandleOrQueue(p, r)
  /\ UNCHANGED <<stream, pipeline>>

\* USB_CancelPacket (537-545): assert in flight, mark CANCELED, remove
\* exactly p from the queue; an ASYNC packet also notifies the device.
USB_CancelPacket(p) ==
  /\ IsInflight(p)
  /\ state' = [state EXCEPT ![p] = "CANCELED"]
  /\ queue' = SelectSeq(queue, LAMBDA q : q # p)
  /\ UNCHANGED <<status, stream, pipeline>>

Next ==
  \E p \in Packets :
    \/ \E s \in Streams : USB_PacketSetup(p, s)
    \/ \E d \in BOOLEAN, r \in DeviceReplies : USB_HandlePacket(p, d, r)
    \/ USB_CancelPacket(p)

Spec == Init /\ [][Next]_vars

-----------------------------------------------------------------------------
(* The endpoint queue holds exactly the packets in flight, each once:      *)
(* every QUEUED or ASYNC packet is in Endpoint->Queue and nothing else     *)
(* is.  A cancel that removes the wrong packet, or a submission that       *)
(* forgets the queue, leaves a packet that can never be completed or a     *)
(* finished packet still linked in the queue.                              *)
QueueMatchesInflight ==
  /\ IsInjective(queue)
  /\ ToSet(queue) = {p \in Packets : IsInflight(p)}

(* Endpoints keep submission order: a packet without a stream id completes *)
(* only when no other packet of its endpoint is still QUEUED or ASYNC, so  *)
(* it cannot overtake a transfer submitted before it.                      *)
CompletionInSubmissionOrder ==
  [][\A p \in Packets :
       (state[p] # "COMPLETE" /\ state'[p] = "COMPLETE" /\ stream[p] = 0)
         => \A q \in Packets \ {p} : ~IsInflight(q)]_vars

=============================================================================
