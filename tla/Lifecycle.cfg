CONSTANTS
  Conns = {c1, c2}
  Listeners = {l1, l2}
  NoConn = NoConn
  Proxies <- MCProxies
  Servers <- MCServers
  UnixSockets <- MCUnixSockets
  MaxBusy = 1
  MaxSignals = 2
  Commands <- MCCommands
SPECIFICATION LifecycleSpec
INVARIANTS RunLeavesNothingOpen ProxyDrained OutcomeExplained CommandClean
PROPERTIES NoAcceptWhileDraining RunReturns CommandReturns
