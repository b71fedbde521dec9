SPECIFICATION FairSpec
CONSTANTS
  Servers = {"http", "https"}
  TLS = TRUE
  WaitTLS = TRUE
  Requests = {"p1", "p2", "plain"}
  Server <- MCServer
  Peer <- MCPeer
  Header <- MCHeader
  IPs = {"10.0.0.1", "192.0.2.1"}
  UseHeader = TRUE
  Health = {}
  MaxHTTPRequests = 1
  Burst = 1
  MaxRefills = 1
INVARIANTS DrainedBeforeClose CleanExit LimitsHold
PROPERTY ServiceEnds
CHECK_DEADLOCK FALSE
