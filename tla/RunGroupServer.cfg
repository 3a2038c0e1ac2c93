CONSTANTS
  Proxies <- MCProxies
  Servers <- MCServers
  UnixSockets <- MCNone
  MaxBusy = 1
  MaxSignals = 2
SPECIFICATION GroupSpec
INVARIANT ServerDrainAwaited
