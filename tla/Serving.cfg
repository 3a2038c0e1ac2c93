CONSTANTS
  Configs <- MCConfigs
  Conn = c1
  Exchanges <- MCExchanges
  PipeConfigs <- MCPipeConfigs
  PipeRequests <- MCPipeRequests
  Failures <- MCFailures
  ViaTags = {"own", "client", "x", "other"}
  LogEntries <- MCLogEntries
  Handshakes = {s1, s2}
  HostNames = {"a", "b"}
  CacheTTL = 3
  Validity = 1
  CAExpires = 2
  LastMoment = 3
SPECIFICATION ServingSpec
INVARIANTS GaugePerLabel UpstreamReleased   WholeOrAborted
  EventsFlushed GuardsFirst HopHeadersStay LoopRefused LogTransparent
  CertServed
PROPERTIES ImplementsHandler ClosingFinishes
