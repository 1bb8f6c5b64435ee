------------------------------- MODULE UsbHub -------------------------------
(***************************************************************************)
(* The USB hub peripheral, class Hub of ohci/ohci_hub.cpp: claiming an     *)
(* upstream OHCI port for a player (Init, UsbHubClaimPort,                 *)
(* UsbHubReleasePort, UsbHub_Initfn), the downstream port registers        *)
(* wPortStatus / wPortChange, hot-plug on its ports (UsbHub_Attach,        *)
(* UsbHub_Detach, UsbHub_Wakeup), hub resets (UsbHub_HandleReset), the     *)
(* hub class requests of UsbHub_HandleControl, and UsbHub_FindDevice.      *)
(*                                                                         *)
(* The standard-request handler USBDesc_HandleControl, the descriptor      *)
(* strings and the interrupt endpoint's wakeup are outside the file: hub   *)
(* class requests reach the switch, and a wakeup leaves no modelled state. *)
(* A downstream device is none, attached, or in the DEFAULT state after a  *)
(* reset, with the address SET_ADDRESS gave it.                            *)
(*                                                                         *)
(* The hub is itself a device on its OHCI port, handled by USBPCIDevice    *)
(* (pci/usb_pci.cpp): USB_Attach and USB_Detach move its State,            *)
(* USB_DeviceReset puts it in DEFAULT at address 0 and runs its            *)
(* handle_reset, UsbHub_HandleReset.  USB_FindDevice on that port answers  *)
(* for the hub or asks its find_device, UsbHub_FindDevice, which asks      *)
(* USB_FindDevice of each enabled downstream port in turn.  SET_ADDRESS    *)
(* (USBDesc_HandleControl, not in the repository) is modelled from the     *)
(* USB standard: it reaches the device USB_FindDevice returns for the      *)
(* address the request was sent to.                                        *)
(***************************************************************************)
EXTENDS Integers, FiniteSets, FiniteSetsExt

CONSTANTS
  NUM_PORTS,     \* downstream ports of the hub
  Players,       \* pport values Init may be called with
  HubCounts,     \* dev->Port->HubCount values of the upstream port
  Addrs          \* device addresses the guest assigns, 0 the default one

ASSUME NUM_PORTS \in Nat \ {0} /\ Players \subseteq Int /\ HubCounts \subseteq Nat
       /\ 0 \in Addrs /\ Addrs \subseteq 0..127

HubPorts == 1..NUM_PORTS          \* wIndex of a port request
\* Bits of wPortStatus and wPortChange that the hub sets or clears.
StatBits == {"CONNECTION", "ENABLE", "SUSPEND", "POWER", "LOW_SPEED"}
ChangeBits == {"C_CONNECTION", "C_ENABLE", "C_SUSPEND", "C_RESET"}
\* Port features of SetPortFeature/ClearPortFeature (USB 2.0 table 11-17).
\* The class requests the guest may send, with the wIndex and wValue that
\* tell the branches of UsbHub_HandleControl apart: a port index in range,
\* 0 and NUM_PORTS + 1 (n = index - 1 is unsigned), each port feature, and
\* one value standing for every other.
PortIndices == 0..NUM_PORTS + 1
PortFeatures == {"PORT_SUSPEND", "PORT_RESET", "PORT_POWER", "PORT_ENABLE",
                 "C_PORT_CONNECTION", "C_PORT_RESET"}
ChangeFeatureBit == [f \in {"C_PORT_CONNECTION", "C_PORT_RESET"} |->
                       IF f = "C_PORT_CONNECTION" THEN "C_CONNECTION" ELSE "C_RESET"]
Request(r, i, v) == [req |-> r, index |-> i, value |-> v]
ControlRequests ==
     {Request(r, 0, "none") : r \in {"GetHubStatus", "GetHubDescriptor"}}
  \cup {Request("EndpointClearFeature", i, v) :
         <<i, v>> \in {<<0, "ENDPOINT_HALT">>, <<129, "ENDPOINT_HALT">>, <<0, "OTHER">>}}
  \cup {Request(r, 0, v) : r \in {"SetHubFeature", "ClearHubFeature"},
                          v \in {"C_HUB_LOCAL_POWER", "OTHER"}}
  \cup {Request("GetPortStatus", i, "none") : i \in PortIndices}
  \cup {Request(r, i, f) : r \in {"SetPortFeature", "ClearPortFeature"},
                          i \in PortIndices, f \in PortFeatures}
NoPort == <<"none", -1>>        \* dev->Port == nullptr
RootPorts == {"USB0", "USB1"} \X {0, 1}   \* OHCI root-hub ports of g_USB0/1
\* USB_STATE_* of XboxDevice (usb_pci.h 55-57).
DevStates == {"NOTATTACHED", "ATTACHED", "DEFAULT"}
\* What USB_FindDevice returns: the hub, the device on a downstream port,
\* or nullptr.
HubDev == <<"hub", 0>>
PortDev(i) == <<"port", i>>
NoDevice == <<"none", 0>>

VARIABLES
  claimed,     \* the OHCI port m_HubState->dev is assigned to, or NoPort
  active,      \* Init returned 0: the downstream ports are registered
  wPortStatus, \* m_HubState->ports[i].wPortStatus
  wPortChange, \* m_HubState->ports[i].wPortChange
  dev,         \* ports[i].port.Dev: "none", "attached" or "default"
  lowSpeed,    \* the downstream device's Speed is USB_SPEED_LOW
  last,        \* the last class request and the status it left in p
  addr,        \* ports[i].port.Dev->Addr
  hubState,    \* m_HubState->dev.State
  hubAddr      \* m_HubState->dev.Addr

treeVars == <<addr, hubState, hubAddr>>
vars == <<claimed, active, wPortStatus, wPortChange, dev, lowSpeed, last,
          addr, hubState, hubAddr>>

TypeOK ==
  /\ claimed \in RootPorts \cup {NoPort}
  /\ active \in BOOLEAN
  /\ wPortStatus \in [HubPorts -> SUBSET StatBits]
  /\ wPortChange \in [HubPorts -> SUBSET ChangeBits]
  /\ dev \in [HubPorts -> {"none", "attached", "default"}]
  /\ lowSpeed \in [HubPorts -> BOOLEAN]
  /\ addr \in [HubPorts -> Addrs]
  /\ hubState \in DevStates
  /\ hubAddr \in Addrs

Init ==
  /\ claimed = NoPort
  /\ active = FALSE
  /\ wPortStatus = [i \in HubPorts |-> {}]
  /\ wPortChange = [i \in HubPorts |-> {}]
  /\ dev = [i \in HubPorts |-> "none"]
  /\ lowSpeed = [i \in HubPorts |-> FALSE]
  /\ last = [req |-> Request("none", 0, "none"), status |-> "SUCCESS"]
  /\ addr = [i \in HubPorts |-> 0]
  /\ hubState = "NOTATTACHED"
  /\ hubAddr = 0

\* PlayerToUsbArray (52-58).
PlayerToUsb(pport) == <<-1, 3, 4, 1, 2>>[pport + 1]

\* The OHCI port UsbHubClaimPort (178-196) assigns for a valid player.
\* Fault-injection variant: the g_USB0 branch subtracts the g_USB1 offset.
ClaimedPortWrongOffset(pport) ==
  LET u == PlayerToUsb(pport)
  IN IF u > 2 THEN <<"USB0", u - 1>> ELSE <<"USB1", u - 1>>

ClaimedPort(pport) ==
  LET u == PlayerToUsb(pport)
  IN IF u > 2 THEN <<"USB0", u - 3>> ELSE <<"USB1", u - 1>>

\* UsbHub_HandleReset (260-275): every port is powered, cleared, and shows
\* a connection (with a change) when its device is attached.
HandleResetPorts ==
  /\ wPortStatus' = [i \in HubPorts |->
        {"POWER"} \cup (IF dev[i] # "none" THEN {"CONNECTION"} ELSE {})
                  \cup (IF dev[i] # "none" /\ lowSpeed[i] THEN {"LOW_SPEED"} ELSE {})]
  /\ wPortChange' = [i \in HubPorts |->
        IF dev[i] # "none" THEN {"C_CONNECTION"} ELSE {}]

\* Hub::Init (129-143): UsbHubClaimPort refuses a player outside 1..4;
\* USB_DeviceInit runs UsbHub_Initfn (207-241), which refuses a chain
\* five hubs deep, after which UsbHubReleasePort (198-205) gives the port
\* back; otherwise the ports are registered and reset.
HubInit(pport, hubCount) ==
  /\ ~active /\ claimed = NoPort
  /\ CASE pport \notin 1..4 \/ hubCount = 5 ->
            UNCHANGED <<claimed, active, wPortStatus, wPortChange>>
       [] OTHER ->
            /\ claimed' = ClaimedPort(pport)
            /\ active' = TRUE
            /\ HandleResetPorts
  /\ UNCHANGED <<dev, lowSpeed, last, treeVars>>

\* The hub's handle_reset, run by USB_DeviceReset of the hub.
UsbHub_HandleReset ==
  /\ active
  /\ HandleResetPorts
  /\ UNCHANGED <<claimed, active, dev, lowSpeed, last>>

\* A device is plugged into port i: UsbHub_Attach (381-393).
UsbHub_Attach(i, low) ==
  /\ active /\ dev[i] = "none"
  /\ dev' = [dev EXCEPT ![i] = "attached"]
  /\ lowSpeed' = [lowSpeed EXCEPT ![i] = low]
  /\ wPortStatus' = [wPortStatus EXCEPT ![i] =
        ((@ \ {"LOW_SPEED"}) \cup {"CONNECTION"})
          \cup (IF low THEN {"LOW_SPEED"} ELSE {})]
  /\ wPortChange' = [wPortChange EXCEPT ![i] = @ \cup {"C_CONNECTION"}]
  /\ UNCHANGED <<claimed, active, last, treeVars>>

\* Fault-injection variant: a detach leaves the port enabled.
UsbHub_DetachKeepsEnable(i) ==
  /\ active /\ dev[i] # "none"
  /\ dev' = [dev EXCEPT ![i] = "none"]
  /\ wPortStatus' = [wPortStatus EXCEPT ![i] = @ \ {"CONNECTION"}]
  /\ wPortChange' = [wPortChange EXCEPT ![i] = @ \cup {"C_CONNECTION"}]
  /\ UNCHANGED <<claimed, active, lowSpeed, last, treeVars>>

\* The device on port i is unplugged: UsbHub_Detach (395-410).
UsbHub_Detach(i) ==
  /\ active /\ dev[i] # "none"
  /\ dev' = [dev EXCEPT ![i] = "none"]
  /\ wPortStatus' = [wPortStatus EXCEPT ![i] = @ \ {"CONNECTION", "ENABLE"}]
  /\ wPortChange' = [wPortChange EXCEPT ![i] =
        @ \cup {"C_CONNECTION"}
          \cup (IF "ENABLE" \in wPortStatus[i] THEN {"C_ENABLE"} ELSE {})]
  /\ UNCHANGED <<claimed, active, lowSpeed, last, treeVars>>

\* Remote wakeup from the device on port i: UsbHub_Wakeup (417-424).
UsbHub_Wakeup(i) ==
  /\ active /\ dev[i] # "none"
  /\ wPortChange' = [wPortChange EXCEPT ![i] =
        IF "SUSPEND" \in wPortStatus[i] THEN @ \cup {"C_SUSPEND"} ELSE @]
  /\ UNCHANGED <<claimed, active, wPortStatus, dev, lowSpeed, last, treeVars>>

\* SetPortFeature (322-352) on port n = index - 1 < NUM_PORTS.  PORT_RESET
\* of an attached device runs USB_DeviceReset (usb_pci.cpp 144-153): the
\* device goes to DEFAULT at address 0.
SetPortFeature(i, f) ==
  CASE f = "PORT_SUSPEND" ->
         /\ wPortStatus' = [wPortStatus EXCEPT ![i] = @ \cup {"SUSPEND"}]
         /\ UNCHANGED <<wPortChange, dev, addr>>
    [] f = "PORT_RESET" /\ dev[i] # "none" ->
         /\ dev' = [dev EXCEPT ![i] = "default"]
         /\ addr' = [addr EXCEPT ![i] = 0]
         /\ wPortChange' = [wPortChange EXCEPT ![i] = @ \cup {"C_RESET"}]
         /\ wPortStatus' = [wPortStatus EXCEPT ![i] = @ \cup {"ENABLE"}]
    [] OTHER -> UNCHANGED <<wPortStatus, wPortChange, dev, addr>>

\* USB_FindDevice (usb_pci.cpp 155-166) on downstream port i: a device
\* that is attached and in DEFAULT answers at its address; a device that is
\* not a hub has no find_device (USB_DeviceFindDevice, 168-175).
USB_FindDevicePort(i, a) ==
  IF dev[i] = "default" /\ addr[i] = a THEN PortDev(i) ELSE NoDevice

\* UsbHub_FindDevice (243-258): the first enabled port, in port order,
\* whose USB_FindDevice finds the address.
UsbHub_FindDevice(a) ==
  LET hit == {i \in HubPorts : "ENABLE" \in wPortStatus[i]
                               /\ USB_FindDevicePort(i, a) # NoDevice}
  IN IF hit = {} THEN NoDevice ELSE PortDev(Min(hit))

\* USB_FindDevice (155-166) on the hub's OHCI port: the hub answers at its
\* own address, otherwise USB_DeviceFindDevice asks its find_device.
USB_FindDevice(a) ==
  CASE ~active \/ hubState # "DEFAULT" -> NoDevice
    [] hubAddr = a -> HubDev
    [] OTHER -> UsbHub_FindDevice(a)

\* The requests UsbHub_HandleControl (276-379) serves; every other one,
\* a port index outside 1..NUM_PORTS or an unknown value, ends at fail:
\* with USB_RET_STALL.
Served(rq) ==
  CASE rq.req \in {"GetHubStatus", "GetHubDescriptor"} -> TRUE
    [] rq.req = "EndpointClearFeature" ->
         ~(rq.value = "ENDPOINT_HALT" /\ rq.index # 129)
    [] rq.req \in {"SetHubFeature", "ClearHubFeature"} ->
         rq.value = "C_HUB_LOCAL_POWER"
    [] rq.req = "GetPortStatus" -> rq.index \in HubPorts
    [] rq.req = "SetPortFeature" ->
         rq.index \in HubPorts /\ rq.value \in {"PORT_SUSPEND", "PORT_RESET", "PORT_POWER"}
    [] OTHER -> FALSE

\* A class request reaches the hub when the OHCI finds it at the address
\* the guest sent the request to.
UsbHub_HandleControl(rq) ==
  /\ \E a \in Addrs : USB_FindDevice(a) = HubDev
  /\ IF Served(rq) /\ rq.req = "SetPortFeature"
       THEN SetPortFeature(rq.index, rq.value)
       ELSE UNCHANGED <<wPortStatus, wPortChange, dev, addr>>
  /\ last' = [req |-> rq, status |-> IF Served(rq) THEN "SUCCESS" ELSE "STALL"]
  /\ UNCHANGED <<claimed, active, lowSpeed, hubState, hubAddr>>

\* USB_Attach (usb_pci.cpp 133-142) of the hub on its OHCI port; the
\* asserts (a device, attached, NOTATTACHED) are the caller's contract.
USB_AttachHub ==
  /\ active /\ hubState = "NOTATTACHED"
  /\ hubState' = "ATTACHED"
  /\ UNCHANGED <<claimed, active, wPortStatus, wPortChange, dev, lowSpeed,
                 last, addr, hubAddr>>

\* USB_Detach (124-131): the hub's State goes back to NOTATTACHED; its
\* downstream ports and devices are left as they are.
USB_DetachHub ==
  /\ active /\ hubState # "NOTATTACHED"
  /\ hubState' = "NOTATTACHED"
  /\ UNCHANGED <<claimed, active, wPortStatus, wPortChange, dev, lowSpeed,
                 last, addr, hubAddr>>

\* USB_DeviceReset (144-153) of the hub, from a reset of its OHCI port: an
\* attached hub goes to DEFAULT at address 0 and runs UsbHub_HandleReset.
USB_DeviceResetHub ==
  /\ hubState # "NOTATTACHED"
  /\ hubState' = "DEFAULT" /\ hubAddr' = 0
  /\ UsbHub_HandleReset
  /\ UNCHANGED addr

\* SET_ADDRESS sent to address cur: the device USB_FindDevice returns for
\* cur takes address a.
SetAddress(cur, a) ==
  LET d == USB_FindDevice(cur)
  IN /\ d # NoDevice
     /\ IF d = HubDev
          THEN hubAddr' = a /\ UNCHANGED addr
          ELSE addr' = [addr EXCEPT ![d[2]] = a] /\ UNCHANGED hubAddr
     /\ UNCHANGED <<claimed, active, wPortStatus, wPortChange, dev, lowSpeed,
                    last, hubState>>

Next ==
  \/ \E pp \in Players, hc \in HubCounts : HubInit(pp, hc)
  \/ USB_AttachHub \/ USB_DetachHub \/ USB_DeviceResetHub
  \/ \E cur, a \in Addrs : SetAddress(cur, a)
  \/ \E i \in HubPorts, low \in BOOLEAN : UsbHub_Attach(i, low)
  \/ \E i \in HubPorts : UsbHub_Detach(i) \/ UsbHub_Wakeup(i)
  \/ \E rq \in ControlRequests : UsbHub_HandleControl(rq)

Spec == Init /\ [][Next]_vars

-----------------------------------------------------------------------------
(* An enabled downstream port always has a device connected behind it:    *)
(* ENABLE is only set by a port reset of an attached device, and the      *)
(* detach and the hub reset that remove the connection also drop ENABLE.  *)
EnabledPortIsConnected ==
  \A i \in HubPorts :
    "ENABLE" \in wPortStatus[i] => ("CONNECTION" \in wPortStatus[i] /\ dev[i] # "none")

(* The guest acknowledges a port change with ClearPortFeature of a       *)
(* C_PORT_ feature (USB 2.0, 11.24.2.2): such a request on a valid port is *)
(* served by UsbHub_HandleControl and clears the change bit, so a change   *)
(* the hub reported can be acknowledged.                                   *)
PortChangeClearable ==
  [][LET rq == last'.req IN
       (rq.req = "ClearPortFeature" /\ rq.index \in HubPorts
        /\ rq.value \in DOMAIN ChangeFeatureBit /\ last' # last)
         => ChangeFeatureBit[rq.value] \notin wPortChange'[rq.index]]_vars

=============================================================================
