\* A two-port hub on its OHCI port, with hot-plug behind it, the hub's own
\* attach, detach and reset, SET_ADDRESS and every class request.
CONSTANTS
  NUM_PORTS = 2
  Players <- MCPlayers
  HubCounts <- MCHubCounts
  Addrs = {0, 1}
SPECIFICATION Spec
VIEW HubView
INVARIANTS
  TypeOK
  EnabledPortIsConnected
