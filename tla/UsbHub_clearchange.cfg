CONSTANTS
  NUM_PORTS = 2
  Players <- MCPlayers
  HubCounts <- MCHubCounts
  Addrs = {0, 1}
SPECIFICATION Spec
PROPERTY
  PortChangeClearable
